---------------------------- MODULE Spec2Model ----------------------------
(***************************************************************************)
(* A model of the device-and-resource core of wknup (src/src/vk/...).      *)
(*                                                                         *)
(* Each subsystem is modelled with its own specification:                  *)
(*   SpecCommandBuffer  the recording state machine of                     *)
(*                      vk/command_buffer.rs together with the shared      *)
(*                      ownership (Arc) of the resources it references;    *)
(*   SpecFence          the Fence future of vk/fence.rs, its background    *)
(*                      waiter thread, the driver-side fence status and    *)
(*                      the debug shutdown flag (SpecFenceFair adds the    *)
(*                      scheduling of the threads);                        *)
(*   SpecSelection      rate_physical_device and choose_physical_device of *)
(*                      vk/physical_device.rs;                             *)
(*   SpecSelector       the DrawQueueFamilySelector of vk/selectors.rs and *)
(*                      fill_selector of vk/device.rs;                     *)
(*   SpecExtensions     the extension managers of vk/extensions.rs and     *)
(*                      vk/device/device_extensions.rs, and the layer      *)
(*                      manager of vk/validation.rs;                       *)
(*   SpecSwapchain      the swapchain of vk/device/swapchain.rs: what it   *)
(*                      chooses, how it is created and torn down;          *)
(*   SpecOwnership      the references the structs of vk/ hold to one      *)
(*                      another, and the order in which Drop runs;         *)
(*   SpecFramebuffers   the same for the framebuffers a swapchain makes;   *)
(*   SpecManagers       the stages VulkanManager is initialised in, and    *)
(*                      the instance InstanceManager requires;             *)
(*   SpecError          fatal_vk_error over the codes of the driver.       *)
(* The subsystems share no variable, so Spec, their interleaving, has the  *)
(* properties of all of them.                                              *)
(***************************************************************************)
EXTENDS Integers, Sequences, FiniteSets

VARIABLES
    \* ---- vk/command_buffer.rs: struct CommandBuffer --------------------
    state,            \* CommandBuffer.state
    command_buffer,   \* CommandBuffer.command_buffer, the driver handle
    markers,          \* CommandBuffer.markers: Vec<Arc<dyn Any>>
    \* ---- the driver's side of that handle ------------------------------
    recorded,         \* number of driver calls issued on the handle
    referenced,       \* the resources named by the commands recorded so far
    \* ---- ownership of the resources the buffer is recorded against -----
    held,             \* objects the application still owns a reference to
    destroyed,        \* objects whose Drop has run (driver handle destroyed)
    \* ---- what the last call on the command buffer returned -------------
    cb_call,
    \* ---- vk/fence.rs: struct Fence and the threads it spawns -----------
    fence,            \* Fence.fence: FenceState
    fence_dropped,    \* Drop for Fence has run
    owner,            \* where the polling thread is inside Fence::poll
    threads,          \* the waiter threads spawned by start_wait
    f_call,           \* what the last call on the fence returned
    \* ---- the driver's side of the fence handle -------------------------
    signaled,         \* the status get_fence_status / wait_for_fences see
    in_flight,        \* a queue submission will signal the fence
    vk_fence_destroyed,
    \* ---- the shutdown switch -------------------------------------------
    FENCE_SHUTDOWN,   \* crate::FENCE_SHUTDOWN (AtomicBool)
    debug_assertions, \* cfg(debug_assertions) of the build
    \* ---- vk/physical_device.rs: choose_physical_device ----------------
    rate_call,        \* a call of rate_physical_device: the device, the rating
    pd_pc,            \* where choose_physical_device is
    pd_count,         \* how many devices enumerate_physical_devices returned
    pd_rated,         \* the ratings of the devices rated so far, in order
    pd_best,          \* the (rating, device) max_by_key holds so far
    pd_ret,           \* what choose_physical_device returned
    \* ---- vk/selectors.rs: DrawQueueFamilySelector ---------------------
    dq_device,        \* the physical device whose families are inspected
    dq_selector,      \* DrawQueueFamilySelector.graphics / .present
    dq_next,          \* the id of the next queue family to inspect
    dq_call,          \* what the last call on the selector returned
    \* ---- vk/extensions.rs, vk/device/device_extensions.rs -------------
    dem,              \* Option<DeviceExtensionManager>: available, enabled
    em,               \* Option<ExtensionManager>: available
    vlm,              \* Option<ValidationLayerManager>: available
    ext_call,         \* what the last call on a manager returned
    ext_names,        \* the last list of enabled names a manager returned
    \* ---- vk/device/swapchain.rs --------------------------------------
    sw_call,          \* what the last call of a swapchain function returned
    sw_chains,        \* the Swapchain values created so far, by chain handle
    sw_current,       \* Option: the chain the application presents to
    sw_driver,        \* the driver calls made for swapchains, in order
    \* ---- who owns whom (the Arc fields of the structs) ----------------
    own_held,         \* the objects the application holds a reference to
    own_destroyed,    \* the objects whose Drop has run
    own_last,         \* the objects the last release destroyed, in order
    own_built,        \* the swapchain whose create_framebuffers was called
    \* ---- vk.rs: struct VulkanManager; an InstanceManager of its own ----
    vm,               \* VulkanManager: entry, instance_manager, window_manager
    im,               \* an InstanceManager made by InstanceManager::init
    vm_call,          \* what the last call on either returned
    \* ---- vk/error.rs: the last call of fatal_vk_error -------------------
    err_call,
    \* ---- a panic of the calling thread (fatal_vk_error, panic!) --------
    panic

cb_vars == <<state, command_buffer, markers, recorded, referenced, held,
             destroyed, cb_call>>

fence_vars == <<fence, fence_dropped, owner, threads, f_call, signaled, in_flight,
                vk_fence_destroyed, FENCE_SHUTDOWN, debug_assertions>>

sel_vars == <<rate_call, pd_pc, pd_count, pd_rated, pd_best, pd_ret>>

dq_vars == <<dq_device, dq_selector, dq_next, dq_call>>

ext_vars == <<dem, em, vlm, ext_call, ext_names>>

\* device setup: the variables no command buffer or fence method touches
sw_vars == <<sw_call, sw_chains, sw_current, sw_driver>>

own_vars == <<own_held, own_destroyed, own_last, own_built>>

mgr_vars == <<vm, im, vm_call>>

err_vars == <<err_call>>

setup_vars ==
    <<sel_vars, dq_vars, ext_vars, sw_vars, own_vars, mgr_vars, err_vars>>

\* what physical device selection leaves alone
not_sel_vars ==
    <<cb_vars, fence_vars, dq_vars, ext_vars, sw_vars, own_vars,
      mgr_vars, err_vars>>

\* what the queue family selector leaves alone
not_dq_vars ==
    <<cb_vars, fence_vars, sel_vars, ext_vars, sw_vars, own_vars,
      mgr_vars, err_vars>>

\* Everything but the extension managers.
not_ext_vars ==
    <<cb_vars, fence_vars, sel_vars, dq_vars, sw_vars, own_vars,
      mgr_vars, err_vars>>

\* Everything but the ownership of the objects.
not_own_vars ==
    <<cb_vars, fence_vars, sel_vars, dq_vars, ext_vars, sw_vars, mgr_vars, err_vars>>

\* Everything but the last fatal error.
not_err_vars ==
    <<cb_vars, fence_vars, sel_vars, dq_vars, ext_vars, sw_vars, own_vars,
      mgr_vars>>

\* Everything but the managers.
not_mgr_vars ==
    <<cb_vars, fence_vars, sel_vars, dq_vars, ext_vars, sw_vars, own_vars, err_vars>>

\* Everything but the swapchains.
not_sw_vars ==
    <<cb_vars, fence_vars, sel_vars, dq_vars, ext_vars, own_vars,
      mgr_vars, err_vars>>

-----------------------------------------------------------------------------
(* Bounds of the model *)

\* cmd_begin_render_pass is enabled while the markers fit in MaxMarkers
MaxMarkers == 4
\* a call that reaches the driver is enabled while recorded < MaxRecorded
MaxRecorded == 5
\* framebuffers built over the one render pass (one per swapchain image)
NumFramebuffers == 2
\* waiter threads a fence may spawn over its life (poll that would spawn one
\* more is not taken)
MaxWaiters == 2
\* queue families a physical device reports
MaxFamilies == 2
\* physical devices the driver enumerates
MaxDevices == 2

\* The most names a driver reports in one enumeration.
MaxReported == 2

\* The longest list of names asked for in one call.
MaxRequired == 2

\* The longest list of formats a surface reports to choose_format.
MaxFormats == 2

\* The largest image count a surface reports in its capabilities.
MaxImageCount == 3

\* The most images the driver creates for one chain.
MaxImages == 3

\* The number of chains created over the life of the model.
MaxChains == 2

-----------------------------------------------------------------------------
(* vk/command_buffer.rs *)

CommandBufferState == {"Initial", "Recording", "Executable", "Pending", "Invalid"}

NoPanic == "none"

\* Result<(), CommandBufferStateError>, or the panic of fatal_vk_error
Ok == [tag |-> "Ok", arg |-> "none"]
CommandBufferStateError(s) == [tag |-> "Err", arg |-> s]
Fatal(msg) == [tag |-> "panic", arg |-> msg]

CommandBufferHandle == "vk::CommandBuffer"

TheRenderPass == <<"RenderPass", 1>>
RenderPasses == {TheRenderPass}
Framebuffers == {<<"Framebuffer", i>> : i \in 1..NumFramebuffers}
ThePipeline == <<"GraphicsPipeline", 1>>
Pipelines == {ThePipeline}
TheCommandBuffer == <<"CommandBuffer", 1>>
Resources == RenderPasses \cup Framebuffers \cup Pipelines
Objects == Resources \cup {TheCommandBuffer}

\* The outcome of one method: what it returns, the CommandBuffer it leaves
\* and the driver calls it made (each with the resources it names).
Outcome(ret, self, driver) == [ret |-> ret, self |-> self, driver |-> driver]
DriverCall(name, handles) == [name |-> name, handles |-> handles]

new == [state |-> "Initial", command_buffer |-> CommandBufferHandle,
        markers |-> <<>>]

\* begin without the rejection of a buffer that is already Recording
begin_AcceptsRecording(self, driver_ok) ==
    IF self.state \notin {"Initial", "Executable", "Recording"}
    THEN Outcome(CommandBufferStateError(self.state), self, <<>>)
    ELSE IF ~driver_ok
    THEN Outcome(Fatal("failed to begin_command_buffer"), self,
                 <<DriverCall("begin_command_buffer", {})>>)
    ELSE Outcome(Ok, [self EXCEPT !.state = "Recording"],
                 <<DriverCall("begin_command_buffer", {})>>)

begin(self, driver_ok) ==
    IF self.state \notin {"Initial", "Executable"}
    THEN Outcome(CommandBufferStateError(self.state), self, <<>>)
    ELSE IF ~driver_ok
    THEN Outcome(Fatal("failed to begin_command_buffer"), self,
                 <<DriverCall("begin_command_buffer", {})>>)
    ELSE Outcome(Ok, [self EXCEPT !.state = "Recording"],
                 <<DriverCall("begin_command_buffer", {})>>)

\* cmd_begin_render_pass retaining its markers before it checks the state
cmd_begin_render_pass_MarksFirst(self, render_pass, framebuffer) ==
    LET marked == [self EXCEPT !.markers = Append(Append(@, render_pass), framebuffer)]
    IN IF self.state # "Recording"
       THEN Outcome(CommandBufferStateError(self.state), marked, <<>>)
       ELSE Outcome(Ok, marked,
                    <<DriverCall("cmd_begin_render_pass", {render_pass, framebuffer})>>)

cmd_begin_render_pass(self, render_pass, framebuffer) ==
    IF self.state # "Recording"
    THEN Outcome(CommandBufferStateError(self.state), self, <<>>)
    ELSE Outcome(Ok,
                 [self EXCEPT !.markers = Append(Append(@, render_pass), framebuffer)],
                 <<DriverCall("cmd_begin_render_pass", {render_pass, framebuffer})>>)

cmd_bind_graphics_pipeline(self, pipeline) ==
    IF self.state # "Recording"
    THEN Outcome(CommandBufferStateError(self.state), self, <<>>)
    ELSE Outcome(Ok, self, <<DriverCall("cmd_bind_pipeline", {pipeline})>>)

cmd_set_viewport(self) ==
    IF self.state # "Recording"
    THEN Outcome(CommandBufferStateError(self.state), self, <<>>)
    ELSE Outcome(Ok, self, <<DriverCall("cmd_set_viewport", {})>>)

cmd_set_scissor(self) ==
    IF self.state # "Recording"
    THEN Outcome(CommandBufferStateError(self.state), self, <<>>)
    ELSE Outcome(Ok, self, <<DriverCall("cmd_set_scissor", {})>>)

\* cmd_draw also accepted on a finished (Executable) buffer
cmd_draw_AcceptsExecutable(self) ==
    IF self.state \notin {"Recording", "Executable"}
    THEN Outcome(CommandBufferStateError(self.state), self, <<>>)
    ELSE Outcome(Ok, self, <<DriverCall("cmd_draw", {})>>)

cmd_draw(self) ==
    IF self.state # "Recording"
    THEN Outcome(CommandBufferStateError(self.state), self, <<>>)
    ELSE Outcome(Ok, self, <<DriverCall("cmd_draw", {})>>)

cmd_end_render_pass(self) ==
    IF self.state # "Recording"
    THEN Outcome(CommandBufferStateError(self.state), self, <<>>)
    ELSE Outcome(Ok, self, <<DriverCall("cmd_end_render_pass", {})>>)

\* end without the assignment of Executable
end_KeepsRecording(self, driver_ok) ==
    IF self.state # "Recording"
    THEN Outcome(CommandBufferStateError(self.state), self, <<>>)
    ELSE IF ~driver_ok
    THEN Outcome(Fatal("failed to record command buffer"), self,
                 <<DriverCall("end_command_buffer", {})>>)
    ELSE Outcome(Ok, self, <<DriverCall("end_command_buffer", {})>>)

end(self, driver_ok) ==
    IF self.state # "Recording"
    THEN Outcome(CommandBufferStateError(self.state), self, <<>>)
    ELSE IF ~driver_ok
    THEN Outcome(Fatal("failed to record command buffer"), self,
                 <<DriverCall("end_command_buffer", {})>>)
    ELSE Outcome(Ok, [self EXCEPT !.state = "Executable"],
                 <<DriverCall("end_command_buffer", {})>>)

-----------------------------------------------------------------------------
(* Shared ownership: Arc<RenderPass>, Arc<Framebuffer>, and the values the  *)
(* application owns directly (GraphicsPipeline, CommandBuffer).             *)

\* Framebuffer._render_pass: every framebuffer holds its render pass
RenderPassOf(framebuffer) == TheRenderPass

\* The strong references to object o: the application's own, the markers of
\* a command buffer that still exists, and the framebuffers built from it.
StrongCount(o, h, alive, mk) ==
      (IF o \in h THEN 1 ELSE 0)
    + (IF TheCommandBuffer \in alive
       THEN Cardinality({i \in DOMAIN mk : mk[i] = o}) ELSE 0)
    + Cardinality({f \in Framebuffers \cap alive : RenderPassOf(f) = o})

\* Drop runs on every object whose last strong reference is gone, and
\* dropping an object releases the references it held.
RECURSIVE DropUnowned(_, _, _)
DropUnowned(h, alive, mk) ==
    LET dead == {o \in alive : StrongCount(o, h, alive, mk) = 0}
    IN IF dead = {} THEN alive ELSE DropUnowned(h, alive \ dead, mk)

\* The submission moving the buffer to Pending, as the driver sees it
Queue_submit_command_buffer_MarksPending(self, submit_ok) ==
    IF ~submit_ok THEN Outcome(Fatal("failed t osubmit queue"), self, <<>>)
    ELSE Outcome(Ok, [self EXCEPT !.state = "Pending"], <<>>)

\* Queue::submit_command_buffer seen from the command buffer: it takes an
\* Arc<CommandBuffer>, reads raw_handle() and neither looks at state nor
\* assigns it; nothing is recorded into the buffer.
Queue_submit_command_buffer(self, submit_ok) ==
    IF ~submit_ok THEN Outcome(Fatal("failed t osubmit queue"), self, <<>>)
    ELSE Outcome(Ok, self, <<>>)

-----------------------------------------------------------------------------
(* The command buffer as a state machine *)

Self == [state |-> state, command_buffer |-> command_buffer, markers |-> markers]

\* The last call on the command buffer: the method, the buffer and the
\* driver's side of it as they were when it was called, and what it returned.
CallRecord(op, pre, pre_recorded, pre_referenced, ret) ==
    [op |-> op, pre |-> pre, pre_recorded |-> pre_recorded,
     pre_referenced |-> pre_referenced, ret |-> ret]

Handles(driver) == UNION {driver[i].handles : i \in DOMAIN driver}

\* One call of a method on the command buffer the application owns.
Call(op, r) ==
    /\ panic = NoPanic
    /\ TheCommandBuffer \in held
    /\ recorded + Len(r.driver) <= MaxRecorded
    /\ Len(r.self.markers) <= MaxMarkers
    /\ state' = r.self.state
    /\ command_buffer' = r.self.command_buffer
    /\ markers' = r.self.markers
    /\ recorded' = recorded + Len(r.driver)
    /\ referenced' = referenced \cup Handles(r.driver)
    /\ cb_call' = CallRecord(op, Self, recorded, referenced, r.ret)
    /\ panic' = IF r.ret.tag = "panic" THEN r.ret.arg ELSE panic
    /\ UNCHANGED <<held, destroyed, fence_vars, setup_vars>>

Begin == \E driver_ok \in BOOLEAN : Call("begin", begin(Self, driver_ok))

CmdBeginRenderPass ==
    \E render_pass \in RenderPasses \cap held, framebuffer \in Framebuffers \cap held :
        Call("cmd_begin_render_pass",
             cmd_begin_render_pass(Self, render_pass, framebuffer))

CmdBindGraphicsPipeline ==
    \E pipeline \in Pipelines \cap held :
        Call("cmd_bind_graphics_pipeline", cmd_bind_graphics_pipeline(Self, pipeline))

CmdSetViewport == Call("cmd_set_viewport", cmd_set_viewport(Self))

CmdSetScissor == Call("cmd_set_scissor", cmd_set_scissor(Self))

CmdDraw == Call("cmd_draw", cmd_draw(Self))

CmdEndRenderPass == Call("cmd_end_render_pass", cmd_end_render_pass(Self))

End == \E driver_ok \in BOOLEAN : Call("end", end(Self, driver_ok))

\* The buffer is handed to a queue, in whatever state it is.
SubmitCommandBuffer ==
    \E submit_ok \in BOOLEAN :
        Call("submit_command_buffer", Queue_submit_command_buffer(Self, submit_ok))

\* The application drops one of the references it owns.
DropReference ==
    /\ panic = NoPanic
    /\ \E o \in held :
         /\ held' = held \ {o}
         /\ destroyed' = Objects \ DropUnowned(held \ {o}, Objects \ destroyed, markers)
    /\ UNCHANGED <<state, command_buffer, markers, recorded, referenced, cb_call,
                   panic, fence_vars, setup_vars>>

InitCommandBuffer ==
    /\ state = new.state
    /\ command_buffer = new.command_buffer
    /\ markers = new.markers
    /\ recorded = 0
    /\ referenced = {}
    /\ held = Objects
    /\ destroyed = {}
    /\ cb_call = CallRecord("new", new, 0, {}, Ok)

NextCommandBuffer ==
    \/ Begin
    \/ CmdBeginRenderPass
    \/ CmdBindGraphicsPipeline
    \/ CmdSetViewport
    \/ CmdSetScissor
    \/ CmdDraw
    \/ CmdEndRenderPass
    \/ End
    \/ SubmitCommandBuffer
    \/ DropReference


-----------------------------------------------------------------------------
(* vk/fence.rs *)

FenceHandle == "vk::Fence"
NullFence == "vk::Fence::null"

\* enum FenceState { Ready(vk::Fence), Waiting(JoinHandle<vk::Fence>) }
Ready(f) == [tag |-> "Ready", fence |-> f, handle |-> 0]
Waiting(t) == [tag |-> "Waiting", fence |-> "moved", handle |-> t]

ThreadIds == 1..MaxWaiters

Unspawned ==
    [pc |-> "unspawned", fence |-> NullFence, code |-> "none", wakes |-> 0, joins |-> 0]

\* fn check_shutdown(): the flag in a debug build, const false in a release build
check_shutdown == debug_assertions /\ FENCE_SHUTDOWN

\* Fence::new without the SIGNALED flag
Fence_new_Unsignaled == [fence |-> [tag |-> "Ready", fence |-> "vk::Fence", handle |-> 0],
                         signaled |-> FALSE]

\* Fence::new: create_fence with FenceCreateFlags::SIGNALED
Fence_new == [fence |-> Ready(FenceHandle), signaled |-> TRUE]

\* The last call on the fence: the method, the FenceState tag and the
\* driver's fence status when it was called, whether it was the first call
\* on the fence, what it returned, whether it reported "polled after
\* shutdown", and the driver calls it made with the handle each was given.
FenceCall(op, pre, fresh, ret, reported, driver) ==
    [op |-> op, pre |-> pre, status |-> signaled, fresh |-> fresh, ret |-> ret,
     reported |-> reported, driver |-> driver]

VkCall(name, f) == [name |-> name, fence |-> f]

-----------------------------------------------------------------------------
(* FenceState *)

\* start_wait spawning the thread without storing Waiting in self
start_wait_StaysReady(self, t) ==
    [panic |-> NoPanic,
     self |-> self,
     spawn |-> [Unspawned EXCEPT !.pc = "wait_for_fences", !.fence = self.fence]]

\* FenceState::start_wait: panics unless Ready; moves the handle into a new
\* thread and becomes Waiting on its JoinHandle.
start_wait(self, t) ==
    IF self.tag # "Ready"
    THEN [panic |-> "Tried starting waiting for a fence that is already being waited for!",
          self |-> self, spawn |-> Unspawned]
    ELSE [panic |-> NoPanic,
          self |-> Waiting(t),
          spawn |-> [Unspawned EXCEPT !.pc = "wait_for_fences", !.fence = self.fence]]

\* The driver's wait_for_fences with the FENCE_POLL_PERIOD timeout.
wait_for_fences(is_signaled, driver_ok) ==
    IF ~driver_ok THEN "ERROR_DEVICE_LOST"
    ELSE IF is_signaled THEN "SUCCESS" ELSE "TIMEOUT"

\* the loop body without the check_shutdown() break
after_wait_IgnoresShutdown(code, shutdown) ==
    IF code = "SUCCESS" THEN "wake"
    ELSE IF code = "TIMEOUT" THEN "wait_for_fences"
    ELSE "panicked"

\* the loop body breaking out of the loop on a TIMEOUT as well
after_wait_BreaksOnTimeout(code, shutdown) ==
    IF shutdown THEN "wake"
    ELSE IF code = "SUCCESS" THEN "wake"
    ELSE IF code = "TIMEOUT" THEN "wake"
    ELSE "panicked"

\* The waiter's loop body after wait_for_fences returned code: where it goes.
after_wait(code, shutdown) ==
    IF shutdown THEN "wake"
    ELSE IF code = "SUCCESS" THEN "wake"
    ELSE IF code = "TIMEOUT" THEN "wait_for_fences"
    ELSE "panicked"

\* the waiter returning a null handle instead of the one it was given
thread_result_Null(th) == NullFence

\* The value the waiter thread returns to join()
thread_result(th) == th.fence

\* FenceState::wait once handle.join() has returned for thread th
wait_joined(th) ==
    IF th.pc = "done"
    THEN [panic |-> NoPanic, self |-> Ready(thread_result(th))]
    ELSE [panic |-> "called Result::unwrap() on an Err value",
          self |-> Ready(NullFence)]

-----------------------------------------------------------------------------
(* Fence *)

\* reset without the Ready check
reset_Unchecked(self, driver_ok) ==
    IF ~driver_ok
    THEN [ret |-> "panic", panic |-> "failed to reset fence",
          driver |-> <<VkCall("reset_fences", self.fence)>>]
    ELSE [ret |-> "Ok", panic |-> NoPanic,
          driver |-> <<VkCall("reset_fences", self.fence)>>]

\* Fence::reset
reset(self, driver_ok) ==
    IF self.tag # "Ready"
    THEN [ret |-> "panic", panic |-> "Fence cannot be reset while being waited for!",
          driver |-> <<>>]
    ELSE IF ~driver_ok
    THEN [ret |-> "panic", panic |-> "failed to reset fence",
          driver |-> <<VkCall("reset_fences", self.fence)>>]
    ELSE [ret |-> "Ok", panic |-> NoPanic,
          driver |-> <<VkCall("reset_fences", self.fence)>>]

\* Fence::raw_handle
raw_handle(self) ==
    IF self.tag = "Ready"
    THEN [ret |-> self.fence, panic |-> NoPanic, driver |-> <<>>]
    ELSE [ret |-> "panic", panic |-> "vk::Fence cannot be retrieved while being waited!",
          driver |-> <<>>]

\* Drop for Fence
drop(self) ==
    IF self.tag = "Ready"
    THEN [ret |-> "Ok", panic |-> NoPanic,
          driver |-> <<VkCall("destroy_fence", self.fence)>>]
    ELSE [ret |-> "panic", panic |-> "FenceState cannot be dropped while being waited!",
          driver |-> <<>>]

\* The polling thread may call into the fence: it has not panicked, the fence
\* has not been dropped and the thread is not blocked inside poll.
OwnerRuns == panic = NoPanic /\ ~fence_dropped /\ owner.pc = "idle"

Idle == [pc |-> "idle", s |-> Ready(NullFence)]

\* No method of the fence has been called since Fence::new.
Fresh ==
    \/ f_call.op = "new"
    \/ f_call.op = "submit" /\ f_call.pre = "none" /\ f_call.fresh

SpawnedThreads == {t \in ThreadIds : threads[t].pc # "unspawned"}

\* Fence::poll, the fence Ready: get_fence_status decides.
PollStatus ==
    /\ OwnerRuns
    /\ fence.tag = "Ready"
    /\ \E driver_ok \in BOOLEAN :
         LET query == <<VkCall("get_fence_status", fence.fence)>> IN
         IF ~driver_ok
         THEN /\ panic' = "failed to get_fence_status"
              /\ f_call' = FenceCall("poll", fence.tag, Fresh, "panic", FALSE, query)
              /\ UNCHANGED <<fence, threads,
                   cb_vars, setup_vars>>
         ELSE IF signaled
         THEN /\ f_call' = FenceCall("poll", fence.tag, Fresh, "Ready", FALSE, query)
              /\ UNCHANGED <<fence, threads, panic,
                   cb_vars, setup_vars>>
         ELSE /\ SpawnedThreads # ThreadIds
              /\ LET t == CHOOSE i \in ThreadIds \ SpawnedThreads :
                              \A j \in ThreadIds \ SpawnedThreads : i <= j
                     r == start_wait(fence, t)
                 IN /\ fence' = r.self
                    /\ threads' = IF r.panic = NoPanic
                                  THEN [threads EXCEPT ![t] = r.spawn] ELSE threads
                    /\ panic' = r.panic
                    /\ f_call' = FenceCall("poll", fence.tag, Fresh,
                                           IF r.panic = NoPanic THEN "Pending" ELSE "panic",
                                           FALSE, query)
    /\ UNCHANGED <<fence_dropped, owner, signaled, in_flight, vk_fence_destroyed,
                   FENCE_SHUTDOWN, debug_assertions,
                   cb_vars, setup_vars>>

\* Fence::poll, the fence Waiting: FenceState::wait takes the JoinHandle out
\* of self (leaving Ready(null) behind) and calls join() on it.
PollWait ==
    /\ OwnerRuns
    /\ fence.tag = "Waiting"
    /\ owner' = [pc |-> "join", s |-> fence]
    /\ fence' = Ready(NullFence)
    /\ f_call' = FenceCall("poll", fence.tag, Fresh, "blocked", FALSE, <<>>)
    /\ UNCHANGED <<fence_dropped, threads, signaled, in_flight, vk_fence_destroyed,
                   FENCE_SHUTDOWN, debug_assertions, panic,
                   cb_vars, setup_vars>>

\* join() returns once the waiter thread has terminated; poll stores the
\* handle it returned, reports a poll after shutdown and returns Ready.
PollJoined ==
    /\ panic = NoPanic
    /\ owner.pc = "join"
    /\ LET t == owner.s.handle
           r == wait_joined(threads[t])
       IN /\ threads[t].pc \in {"done", "panicked"}
          /\ threads' = [threads EXCEPT ![t].joins = @ + 1]
          /\ fence' = r.self
          /\ panic' = r.panic
          /\ f_call' = [f_call EXCEPT
                          !.ret = IF r.panic = NoPanic THEN "Ready" ELSE "panic",
                          !.reported = r.panic = NoPanic /\ check_shutdown]
    /\ owner' = Idle
    /\ UNCHANGED <<fence_dropped, signaled, in_flight, vk_fence_destroyed,
                   FENCE_SHUTDOWN, debug_assertions,
                   cb_vars, setup_vars>>

\* A method of the fence other than poll: what it returns and what its
\* driver calls do to the driver's side of the handle.
FenceMethod(op, r, now_signaled, now_in_flight, now_destroyed, now_dropped) ==
    /\ OwnerRuns
    /\ f_call' = FenceCall(op, fence.tag, Fresh, r.ret, FALSE, r.driver)
    /\ panic' = r.panic
    /\ signaled' = IF r.ret = "panic" THEN signaled ELSE now_signaled
    /\ in_flight' = IF r.ret = "panic" THEN in_flight ELSE now_in_flight
    /\ vk_fence_destroyed' = IF r.ret = "panic" THEN vk_fence_destroyed ELSE now_destroyed
    /\ fence_dropped' = IF r.ret = "panic" THEN fence_dropped ELSE now_dropped
    /\ UNCHANGED <<fence, owner, threads, FENCE_SHUTDOWN, debug_assertions,
                   cb_vars, setup_vars>>

Reset ==
    \E driver_ok \in BOOLEAN :
        FenceMethod("reset", reset(fence, driver_ok),
                    FALSE, in_flight, vk_fence_destroyed, fence_dropped)

RawHandle ==
    FenceMethod("raw_handle", raw_handle(fence),
                signaled, in_flight, vk_fence_destroyed, fence_dropped)

DropFence ==
    FenceMethod("drop", drop(fence), signaled, in_flight, TRUE, TRUE)

-----------------------------------------------------------------------------
(* The waiter thread spawned by start_wait *)

WaiterWaitForFences(t) ==
    /\ threads[t].pc = "wait_for_fences"
    /\ \E driver_ok \in BOOLEAN :
         threads' = [threads EXCEPT
                       ![t].code = wait_for_fences(signaled, driver_ok),
                       ![t].pc = "check_shutdown"]
    /\ UNCHANGED <<fence, fence_dropped, owner, f_call, signaled, in_flight,
                   vk_fence_destroyed, FENCE_SHUTDOWN, debug_assertions, panic,
                   cb_vars, setup_vars>>

WaiterCheck(t) ==
    /\ threads[t].pc = "check_shutdown"
    /\ threads' = [threads EXCEPT ![t].pc = after_wait(threads[t].code, check_shutdown)]
    /\ UNCHANGED <<fence, fence_dropped, owner, f_call, signaled, in_flight,
                   vk_fence_destroyed, FENCE_SHUTDOWN, debug_assertions, panic,
                   cb_vars, setup_vars>>

WaiterWake(t) ==
    /\ threads[t].pc = "wake"
    /\ threads' = [threads EXCEPT ![t].wakes = @ + 1, ![t].pc = "return"]
    /\ UNCHANGED <<fence, fence_dropped, owner, f_call, signaled, in_flight,
                   vk_fence_destroyed, FENCE_SHUTDOWN, debug_assertions, panic,
                   cb_vars, setup_vars>>

WaiterReturn(t) ==
    /\ threads[t].pc = "return"
    /\ threads' = [threads EXCEPT ![t].pc = "done"]
    /\ UNCHANGED <<fence, fence_dropped, owner, f_call, signaled, in_flight,
                   vk_fence_destroyed, FENCE_SHUTDOWN, debug_assertions, panic,
                   cb_vars, setup_vars>>

-----------------------------------------------------------------------------
(* The environment of the fence *)

\* The fence argument of submit_command_buffer when it is None.
NoFence == [tag |-> "none", fence |-> NullFence, handle |-> 0]

\* The first half of submit_command_buffer's `if let Some(fence)`: reset.
submit_reset(fence_arg, reset_ok) ==
    IF fence_arg.tag = "none"
    THEN [ret |-> "Ok", panic |-> NoPanic, driver |-> <<>>]
    ELSE reset(fence_arg, reset_ok)

\* The second half: the handle queue_submit is given.
submit_handle(fence_arg) ==
    IF fence_arg.tag = "none"
    THEN [ret |-> NullFence, panic |-> NoPanic, driver |-> <<>>]
    ELSE raw_handle(fence_arg)

\* the submission issued first and the fence reset after it
submit_command_buffer_SubmitsFirst(fence_arg, reset_ok, submit_ok) ==
    LET h == submit_handle(fence_arg)
        submit == <<VkCall("queue_submit", h.ret)>>
        r == submit_reset(fence_arg, reset_ok)
    IN IF h.ret = "panic"
       THEN [ret |-> "panic", panic |-> h.panic, driver |-> <<>>]
       ELSE IF ~submit_ok
       THEN [ret |-> "panic", panic |-> "failed t osubmit queue", driver |-> submit]
       ELSE [ret |-> r.ret, panic |-> r.panic, driver |-> submit \o r.driver]

\* Queue::submit_command_buffer: reset the fence if one is supplied, take its
\* handle (null without a fence), then queue_submit.
submit_command_buffer(fence_arg, reset_ok, submit_ok) ==
    LET r == submit_reset(fence_arg, reset_ok)
        h == submit_handle(fence_arg)
        submit == <<VkCall("queue_submit", h.ret)>>
    IN IF r.ret = "panic"
       THEN [ret |-> "panic", panic |-> r.panic, driver |-> r.driver]
       ELSE IF h.ret = "panic"
       THEN [ret |-> "panic", panic |-> h.panic, driver |-> r.driver]
       ELSE IF ~submit_ok
       THEN [ret |-> "panic", panic |-> "failed t osubmit queue",
             driver |-> r.driver \o submit]
       ELSE [ret |-> "Ok", panic |-> NoPanic, driver |-> r.driver \o submit]

\* The driver calls of r that the driver carried out (a call that fails is
\* the last one and has no effect).
Performed(r) ==
    {r.driver[i].name : i \in {j \in DOMAIN r.driver : r.ret = "Ok" \/ j < Len(r.driver)}}

\* A submission with fence_arg: reset_fences unsignals the fence, and a
\* queue_submit given the fence makes the GPU signal it on completion.
Submit(fence_arg, r) ==
    /\ OwnerRuns
    /\ f_call' = FenceCall("submit", fence_arg.tag, Fresh, r.ret, FALSE, r.driver)
    /\ panic' = r.panic
    /\ signaled' = IF "reset_fences" \in Performed(r) THEN FALSE ELSE signaled
    /\ in_flight' = IF "queue_submit" \in Performed(r) /\ fence_arg.tag # "none"
                    THEN TRUE ELSE in_flight
    /\ UNCHANGED <<fence, owner, threads, vk_fence_destroyed, fence_dropped,
                   FENCE_SHUTDOWN, debug_assertions,
                   cb_vars, setup_vars>>

SubmitWithFence ==
    \E reset_ok \in BOOLEAN, submit_ok \in BOOLEAN :
        Submit(fence, submit_command_buffer(fence, reset_ok, submit_ok))

SubmitWithoutFence ==
    \E submit_ok \in BOOLEAN :
        Submit(NoFence, submit_command_buffer(NoFence, TRUE, submit_ok))

\* The GPU finishes the submitted work and signals the fence.
GpuSignals ==
    /\ in_flight
    /\ signaled' = TRUE
    /\ in_flight' = FALSE
    /\ UNCHANGED <<fence, fence_dropped, owner, threads, f_call, vk_fence_destroyed,
                   FENCE_SHUTDOWN, debug_assertions, panic,
                   cb_vars, setup_vars>>

\* The application sets the debug shutdown flag (set once, never reset).
SetShutdown ==
    /\ debug_assertions
    /\ ~FENCE_SHUTDOWN
    /\ FENCE_SHUTDOWN' = TRUE
    /\ UNCHANGED <<fence, fence_dropped, owner, threads, f_call, signaled, in_flight,
                   vk_fence_destroyed, debug_assertions, panic,
                   cb_vars, setup_vars>>

InitFence ==
    /\ fence = Fence_new.fence
    /\ signaled = Fence_new.signaled
    /\ fence_dropped = FALSE
    /\ owner = Idle
    /\ threads = [t \in ThreadIds |-> Unspawned]
    /\ f_call = FenceCall("new", "none", FALSE, "Ok", FALSE,
                          <<VkCall("create_fence", FenceHandle)>>)
    /\ in_flight = FALSE
    /\ vk_fence_destroyed = FALSE
    /\ FENCE_SHUTDOWN = FALSE
    /\ debug_assertions \in BOOLEAN

NextFence ==
    \/ PollStatus
    \/ PollWait
    \/ PollJoined
    \/ Reset
    \/ RawHandle
    \/ DropFence
    \/ SubmitWithFence
    \/ SubmitWithoutFence
    \/ \E t \in ThreadIds : WaiterWaitForFences(t)
    \/ \E t \in ThreadIds : WaiterCheck(t)
    \/ \E t \in ThreadIds : WaiterWake(t)
    \/ \E t \in ThreadIds : WaiterReturn(t)
    \/ GpuSignals
    \/ SetShutdown

-----------------------------------------------------------------------------
(* Option<T>: None, or Some(x) *)

None == <<>>
Some(x) == <<x>>
is_some(o) == o # None
unwrap(o) == o[1]

\* The least element of a non-empty set of numbers (the first hit of a
\* search that runs in index order).
First(S) == CHOOSE i \in S : \A j \in S : i <= j

\* The elements of a sequence.
Range(seq) == {seq[i] : i \in DOMAIN seq}

-----------------------------------------------------------------------------
(* vk/device/swapchain.rs: whether a swapchain can be built on a surface *)

B8G8R8A8_SRGB == [format |-> "B8G8R8A8_SRGB", color_space |-> "SRGB_NONLINEAR"]
R8G8B8A8_UNORM == [format |-> "R8G8B8A8_UNORM", color_space |-> "SRGB_NONLINEAR"]

\* A format entry with the right format in another color space.
B8G8R8A8_SRGB_LINEAR == [format |-> "B8G8R8A8_SRGB", color_space |-> "EXTENDED_SRGB_LINEAR_EXT"]

\* choose_format looking at the format only
choose_format_FormatOnly(formats) ==
    LET found == {i \in DOMAIN formats : formats[i].format = "B8G8R8A8_SRGB"}
    IN IF found = {} THEN None ELSE Some(formats[First(found)])

choose_format(formats) ==
    LET found == {i \in DOMAIN formats :
                    /\ formats[i].format = "B8G8R8A8_SRGB"
                    /\ formats[i].color_space = "SRGB_NONLINEAR"}
    IN IF found = {} THEN None ELSE Some(formats[First(found)])

choose_present_mode(modes) ==
    LET found == {i \in DOMAIN modes : modes[i] = "FIFO"}
    IN IF found = {} THEN None ELSE Some(modes[First(found)])

\* choose_image_count without the cap
choose_image_count_Unclamped(capabilities) == capabilities.min_image_count + 1

\* choose_image_count. The u32 addition overflows only for a surface whose
\* min_image_count is u32::MAX; the counts here stay far below.
choose_image_count(capabilities) ==
    LET image_count == capabilities.min_image_count + 1
    IN IF capabilities.max_image_count # 0 /\ capabilities.max_image_count < image_count
       THEN capabilities.max_image_count
       ELSE image_count

check_surface_info(surface_info) ==
    ~(\/ ~is_some(choose_format(surface_info.formats))
      \/ ~is_some(choose_present_mode(surface_info.present_modes)))

-----------------------------------------------------------------------------
(* What the driver reports about a physical device *)

DeviceTypes == {"DISCRETE_GPU", "INTEGRATED_GPU", "CPU"}

\* device.rs: REQUIRED_DEVICE_EXTENSIONS
REQUIRED_DEVICE_EXTENSIONS == <<"VK_KHR_swapchain", "VK_KHR_vulkan_memory_model">>

\* vk::Bool32 as the driver reports it
VK_FALSE == 0
VK_TRUE == 1

\* One queue family: whether queue_flags contains GRAPHICS, and whether
\* get_physical_device_surface_support returned Ok(true) for it.
QueueFamilyProperties == [graphics : BOOLEAN, surface_support : BOOLEAN]

QueueFamilyLists == UNION {[1..n -> QueueFamilyProperties] : n \in 0..MaxFamilies}

\* get_physical_device_surface_info: an error, or the formats and present
\* modes of the surface on the device.
SurfaceInfoErr == [ok |-> FALSE, formats |-> <<>>, present_modes |-> <<>>]

SurfaceInfos ==
    {SurfaceInfoErr}
    \cup {[ok |-> TRUE, formats |-> f, present_modes |-> m] :
            f \in {<<>>, <<R8G8B8A8_UNORM, B8G8R8A8_SRGB>>},
            m \in {<<>>, <<"FIFO">>}}

UsableSurface ==
    [ok |-> TRUE, formats |-> <<R8G8B8A8_UNORM, B8G8R8A8_SRGB>>,
     present_modes |-> <<"FIFO">>]

\* enumerate_device_extension_properties: an error, or the available names.
ExtensionReports ==
    {[ok |-> FALSE, names |-> {}]}
    \cup {[ok |-> TRUE, names |-> a] :
            a \in SUBSET {REQUIRED_DEVICE_EXTENSIONS[i] :
                            i \in DOMAIN REQUIRED_DEVICE_EXTENSIONS}}

AllExtensions ==
    [ok |-> TRUE,
     names |-> {REQUIRED_DEVICE_EXTENSIONS[i] : i \in DOMAIN REQUIRED_DEVICE_EXTENSIONS}]

PhysicalDevices ==
    [device_type : DeviceTypes,
     extensions : ExtensionReports,
     vulkan_memory_model : BOOLEAN,
     geometry_shader : {VK_FALSE, VK_TRUE},
     queue_families : QueueFamilyLists,
     surface_info : SurfaceInfos]

-----------------------------------------------------------------------------
(* vk/device/device_extensions.rs *)

\* The outcome of a check: Ok, or Err naming the extension that is missing
ExtOk == [tag |-> "Ok", extension |-> "none"]
ExtensionUnavailableError(ext) == [tag |-> "Err", extension |-> ext]

\* check_extensions looking at the first name of the list only
DeviceExtensionManager_check_extensions_FirstOnly(available, extensions) ==
    IF extensions = <<>> \/ extensions[1] \in available THEN ExtOk
    ELSE ExtensionUnavailableError(extensions[1])

\* DeviceExtensionManager::check_extensions: the first of extensions that
\* is not in available, in the order of the list
DeviceExtensionManager_check_extensions(available, extensions) ==
    LET missing == {i \in DOMAIN extensions : extensions[i] \notin available}
    IN IF missing = {} THEN ExtOk
       ELSE ExtensionUnavailableError(extensions[First(missing)])

\* device_extensions::check_extensions: enumerate the device's extensions
\* (which may fail), then check.
check_extensions(device, extensions) ==
    IF ~device.extensions.ok
    THEN [tag |-> "Err", extension |-> "enumerate_device_extension_properties"]
    ELSE DeviceExtensionManager_check_extensions(device.extensions.names, extensions)

\* The names a driver can report.
ExtensionNames == Range(REQUIRED_DEVICE_EXTENSIONS)

\* What one enumeration reports: names in the driver's order, repeats included.
DriverReports == UNION {[1..n -> ExtensionNames] : n \in 0..MaxReported}

\* The lists a caller may ask for, over the names in names.
RequiredLists(names) == UNION {[1..n -> names] : n \in 0..MaxRequired}

\* No Result: the call panicked.
NoRet == [tag |-> "none", extension |-> "none"]

\* DeviceExtensionManager::init: available is the HashSet of the names
\* enumerate_device_extension_properties reports, enabled is empty.
DeviceExtensionManager_init(enumerate_ok, report) ==
    IF ~enumerate_ok
    THEN [self |-> None,
          ret |-> [tag |-> "Err", extension |-> "enumerate_device_extension_properties"]]
    ELSE [self |-> Some([available |-> Range(report), enabled |-> {}]), ret |-> ExtOk]

\* add_extensions replacing the enabled set by the names of the list
DeviceExtensionManager_add_extensions_Replaces(self, extensions) ==
    LET checked == DeviceExtensionManager_check_extensions(self.available, extensions)
    IN IF checked # ExtOk
       THEN [self |-> self, ret |-> checked, panic |-> NoPanic]
       ELSE [self |-> [self EXCEPT !.enabled = Range(extensions)],
             ret |-> ExtOk, panic |-> NoPanic]

\* DeviceExtensionManager::add_extensions
DeviceExtensionManager_add_extensions(self, extensions) ==
    LET checked == DeviceExtensionManager_check_extensions(self.available, extensions)
    IN IF checked # ExtOk
       THEN [self |-> self, ret |-> checked, panic |-> NoPanic]
       ELSE [self |-> [self EXCEPT !.enabled = @ \cup Range(extensions)],
             ret |-> ExtOk, panic |-> NoPanic]

\* DeviceExtensionManager::list_names (a HashSet iterates in no fixed order)
list_names(self) == self.enabled

-----------------------------------------------------------------------------
(* vk/extensions.rs: ExtensionManager *)

\* A String holding an interior NUL byte. CString::new refuses it, and no
\* name a driver reports (a C string) equals it.
InteriorNul == "VK_KHR_sur<NUL>face"

CString_new(string) ==
    IF string = InteriorNul
    THEN [ok |-> FALSE, panic |-> "called Result::unwrap() on an Err value: NulError"]
    ELSE [ok |-> TRUE, panic |-> NoPanic]

\* ExtensionManager::enumerate: one Extension per reported property
enumerate(report) == [i \in DOMAIN report |-> [name |-> report[i], enabled |-> FALSE]]

\* ExtensionManager::init
ExtensionManager_init(result, report) ==
    IF result = "SUCCESS"
    THEN [self |-> Some([available |-> enumerate(report)]), panic |-> NoPanic]
    ELSE IF result = "ERROR_OUT_OF_HOST_MEMORY"
    THEN [self |-> None,
          panic |-> "failed to enumerate_instance_extension_properties: out of host memory"]
    ELSE [self |-> None,
          panic |-> "failed to enumerate_instance_extension_properties: out of device memory"]

\* check_extensions reporting the last missing name of the list
ExtensionManager_check_extensions_LastMissing(self, extensions) ==
    LET any(ext) == \E j \in DOMAIN self.available : self.available[j].name = ext
        missing == {i \in DOMAIN extensions : ~any(extensions[i])}
        last == CHOOSE i \in missing : \A j \in missing : j <= i
    IN IF missing = {} THEN [ret |-> ExtOk, panic |-> NoPanic]
       ELSE IF ~CString_new(extensions[last]).ok
       THEN [ret |-> NoRet, panic |-> CString_new(extensions[last]).panic]
       ELSE [ret |-> ExtensionUnavailableError(extensions[last]), panic |-> NoPanic]

\* ExtensionManager::check_extensions
ExtensionManager_check_extensions(self, extensions) ==
    LET any(ext) == \E j \in DOMAIN self.available : self.available[j].name = ext
        missing == {i \in DOMAIN extensions : ~any(extensions[i])}
    IN IF missing = {} THEN [ret |-> ExtOk, panic |-> NoPanic]
       ELSE IF ~CString_new(extensions[First(missing)]).ok
       THEN [ret |-> NoRet, panic |-> CString_new(extensions[First(missing)]).panic]
       ELSE [ret |-> ExtensionUnavailableError(extensions[First(missing)]),
             panic |-> NoPanic]

\* add_extensions enabling the available names of the list before checking it
ExtensionManager_add_extensions_EnablesFirst(self, extensions) ==
    LET checked == ExtensionManager_check_extensions(self, extensions)
    IN [self |-> [available |->
                    [j \in DOMAIN self.available |->
                       IF self.available[j].name \in Range(extensions)
                       THEN [self.available[j] EXCEPT !.enabled = TRUE]
                       ELSE self.available[j]]],
        ret |-> checked.ret, panic |-> checked.panic]

\* ExtensionManager::add_extensions
ExtensionManager_add_extensions(self, extensions) ==
    LET checked == ExtensionManager_check_extensions(self, extensions)
    IN IF checked.panic # NoPanic \/ checked.ret # ExtOk
       THEN [self |-> self, ret |-> checked.ret, panic |-> checked.panic]
       ELSE [self |-> [available |->
                         [j \in DOMAIN self.available |->
                            IF self.available[j].name \in Range(extensions)
                            THEN [self.available[j] EXCEPT !.enabled = TRUE]
                            ELSE self.available[j]]],
             ret |-> ExtOk, panic |-> NoPanic]

\* ExtensionManager::make_load_extension_list
make_load_extension_list(self) ==
    LET enabled == {j \in DOMAIN self.available : self.available[j].enabled}
        RECURSIVE collect(_)
        collect(j) == IF j > Len(self.available) THEN <<>>
                      ELSE IF j \in enabled THEN <<self.available[j].name>> \o collect(j + 1)
                      ELSE collect(j + 1)
    IN collect(1)

-----------------------------------------------------------------------------
(* vk/validation.rs: ValidationLayerManager *)

\* ValidationLayerManager::init. With debug_assertions the layers the loader
\* reports are enumerated; without, the struct has no field and enumerate
\* gives the empty Vec.
ValidationLayerManager_init(debug, result, report) ==
    IF ~debug
    THEN [self |-> Some([available |-> <<>>]), panic |-> NoPanic]
    ELSE IF result = "SUCCESS"
    THEN [self |-> Some([available |-> enumerate(report)]), panic |-> NoPanic]
    ELSE [self |-> None, panic |-> "failed to enumerate_instance_layer_properties"]

\* check_layers accepting every list in every build
check_layers_AcceptsAll(debug, self, layers) == [ret |-> ExtOk, panic |-> NoPanic]

\* ValidationLayerManager::check_layers
check_layers(debug, self, layers) ==
    LET any(l) == \E j \in DOMAIN self.available : self.available[j].name = l
        missing == {i \in DOMAIN layers : ~any(layers[i])}
    IN IF ~debug THEN [ret |-> ExtOk, panic |-> NoPanic]
       ELSE IF missing = {} THEN [ret |-> ExtOk, panic |-> NoPanic]
       ELSE IF ~CString_new(layers[First(missing)]).ok
       THEN [ret |-> NoRet, panic |-> CString_new(layers[First(missing)]).panic]
       ELSE [ret |-> ExtensionUnavailableError(layers[First(missing)]), panic |-> NoPanic]

\* ValidationLayerManager::add_layers
add_layers(debug, self, layers) ==
    LET checked == check_layers(debug, self, layers)
    IN IF ~debug \/ checked.panic # NoPanic \/ checked.ret # ExtOk
       THEN [self |-> self, ret |-> checked.ret, panic |-> checked.panic]
       ELSE [self |-> [available |->
                         [j \in DOMAIN self.available |->
                            IF self.available[j].name \in Range(layers)
                            THEN [self.available[j] EXCEPT !.enabled = TRUE]
                            ELSE self.available[j]]],
             ret |-> ExtOk, panic |-> NoPanic]

\* ValidationLayerManager::make_load_layer_list
make_load_layer_list(debug, self) ==
    IF ~debug THEN <<>> ELSE make_load_extension_list(self)

-----------------------------------------------------------------------------
(* vk/physical_device.rs: QueueFamilyIndices *)

QueueFamilyIndices_new == [graphics |-> None, present |-> None]

filter_graphic_qf(device, id, props) == props.graphics

\* filter_present_qf: the family must support the surface, and the surface
\* must be usable; a failing surface query is unwrapped.
filter_present_qf(device, id, props) ==
    IF ~props.surface_support
    THEN [ret |-> FALSE, panic |-> NoPanic]
    ELSE IF ~device.surface_info.ok
    THEN [ret |-> FALSE, panic |-> "called Result::unwrap() on an Err value"]
    ELSE [ret |-> check_surface_info(device.surface_info), panic |-> NoPanic]

\* try_queue recording the number of families seen instead of the id
try_queue_OffByOne(self, device, id, props) ==
    LET present == filter_present_qf(device, id, props)
        g == IF filter_graphic_qf(device, id, props) THEN Some(id + 1) ELSE self.graphics
    IN [self |-> [graphics |-> g,
                  present |-> IF present.ret THEN Some(id + 1) ELSE self.present],
        panic |-> present.panic]

\* QueueFamilyIndices::try_queue
try_queue(self, device, id, props) ==
    LET present == filter_present_qf(device, id, props)
        g == IF filter_graphic_qf(device, id, props) THEN Some(id) ELSE self.graphics
    IN [self |-> [graphics |-> g,
                  present |-> IF present.ret THEN Some(id) ELSE self.present],
        panic |-> present.panic]

\* The for_each of fill from family id on (ids count from 0).
RECURSIVE fill_from(_, _, _)
fill_from(self, device, id) ==
    IF id >= Len(device.queue_families)
    THEN [self |-> self, panic |-> NoPanic]
    ELSE LET r == try_queue(self, device, id, device.queue_families[id + 1])
         IN IF r.panic # NoPanic THEN r ELSE fill_from(r.self, device, id + 1)

\* QueueFamilyIndices::fill
fill(self, device) == fill_from(self, device, 0)

\* QueueFamilyIndices::is_complete
QueueFamilyIndices_is_complete(self) == is_some(self.graphics) /\ is_some(self.present)

-----------------------------------------------------------------------------
(* vk/physical_device/features.rs *)

\* PhysicalDeviceFeatures2::new_required through from_features2: the memory
\* model and the geometry shader are required, every other flag is left 0.
new_required == [vulkan_memory_model |-> TRUE, geometry_shader |-> VK_TRUE]

\* FeaturesInfo::check_required on the flags the device record carries (for
\* every other flag required is 0 or false, and its disjunct is false).
check_required(self) ==
    IF \/ (new_required.vulkan_memory_model /\ ~self.vulkan_memory_model)
       \/ (new_required.geometry_shader > self.geometry_shader)
    THEN "Err(MissingDeviceFeature)"
    ELSE "Ok(())"

-----------------------------------------------------------------------------
(* vk/physical_device.rs: rating and choice *)

\* the rating without the geometry shader check
rate_physical_device_SkipsGeometryShader(device, qfi) ==
    LET filled == fill(qfi, device) IN
    IF ~(device.device_type = "DISCRETE_GPU" \/ device.device_type = "INTEGRATED_GPU")
    THEN [rating |-> 0, panic |-> NoPanic]
    ELSE IF check_extensions(device, REQUIRED_DEVICE_EXTENSIONS).tag = "Err"
    THEN [rating |-> 0, panic |-> NoPanic]
    ELSE IF ~device.vulkan_memory_model
    THEN [rating |-> 0, panic |-> NoPanic]
    ELSE IF filled.panic # NoPanic
    THEN [rating |-> 0, panic |-> filled.panic]
    ELSE IF ~QueueFamilyIndices_is_complete(filled.self)
    THEN [rating |-> 0, panic |-> NoPanic]
    ELSE [rating |-> 1, panic |-> NoPanic]

\* rate_physical_device; qfi is the caller's chooser, passed by value
rate_physical_device(device, qfi) ==
    LET filled == fill(qfi, device) IN
    IF ~(device.device_type = "DISCRETE_GPU" \/ device.device_type = "INTEGRATED_GPU")
    THEN [rating |-> 0, panic |-> NoPanic]
    ELSE IF check_extensions(device, REQUIRED_DEVICE_EXTENSIONS).tag = "Err"
    THEN [rating |-> 0, panic |-> NoPanic]
    ELSE IF ~device.vulkan_memory_model
    THEN [rating |-> 0, panic |-> NoPanic]
    ELSE IF device.geometry_shader # 1
    THEN [rating |-> 0, panic |-> NoPanic]
    ELSE IF filled.panic # NoPanic
    THEN [rating |-> 0, panic |-> filled.panic]
    ELSE IF ~QueueFamilyIndices_is_complete(filled.self)
    THEN [rating |-> 0, panic |-> NoPanic]
    ELSE [rating |-> 1, panic |-> NoPanic]

\* the reduction keeping the earlier of two equally rated devices
max_by_key_KeepsFirst(x, y) == IF x.rating >= y.rating THEN x ELSE y

\* One step of Iterator::max_by_key(|s| s.0): of the element held so far
\* and the next one, the one with the greater key, the next one on a tie.
max_by_key(x, y) == IF x.rating > y.rating THEN x ELSE y

\* the (rating, pdev) pair the map closure yields, with what the driver
\* reports about pdev
Rated(rating, pdev, info) == [rating |-> rating, pdev |-> pdev, info |-> info]

ChoiceErr(msg) ==
    [tag |-> "Err", msg |-> msg, device |-> 0,
     queue_family_indices |-> QueueFamilyIndices_new, panic |-> NoPanic]

\* the choice accepting a best rating of 0
choose_physical_device_AcceptsZero(physical_device, queue_family_indices) ==
    IF ~is_some(physical_device)
    THEN ChoiceErr("No physical device found.")
    ELSE IF unwrap(physical_device).rating < 0
    THEN ChoiceErr("No suitable physical device found.")
    ELSE LET filled == fill(queue_family_indices, unwrap(physical_device).info)
         IN [tag |-> IF filled.panic = NoPanic THEN "Ok" ELSE "panic",
             msg |-> "", device |-> unwrap(physical_device).pdev,
             queue_family_indices |-> filled.self, panic |-> filled.panic]

\* choose_physical_device once max_by_key has returned physical_device
choose_physical_device(physical_device, queue_family_indices) ==
    IF ~is_some(physical_device)
    THEN ChoiceErr("No physical device found.")
    ELSE IF unwrap(physical_device).rating <= 0
    THEN ChoiceErr("No suitable physical device found.")
    ELSE LET filled == fill(queue_family_indices, unwrap(physical_device).info)
         IN [tag |-> IF filled.panic = NoPanic THEN "Ok" ELSE "panic",
             msg |-> "", device |-> unwrap(physical_device).pdev,
             queue_family_indices |-> filled.self, panic |-> filled.panic]

\* The devices choose_physical_device is run on: any type and any queue
\* families, the surface usable or its query failing; the extensions and
\* features are those of a device that passes (RatePhysicalDevice rates
\* the others).
Candidates ==
    {d \in PhysicalDevices :
        /\ d.extensions = AllExtensions
        /\ d.vulkan_memory_model /\ d.geometry_shader = VK_TRUE
        /\ d.surface_info \in {UsableSurface, SurfaceInfoErr}}

NoDevice ==
    [device_type |-> "CPU", extensions |-> AllExtensions, vulkan_memory_model |-> FALSE,
     geometry_shader |-> VK_FALSE, queue_families |-> <<>>, surface_info |-> SurfaceInfoErr]

\* rate_physical_device on its own, on any device the driver may report,
\* with a fresh chooser (one call, outside a choice)
RatePhysicalDevice ==
    /\ panic = NoPanic
    /\ rate_call.op = "none"
    /\ pd_pc = "idle"
    /\ \E device \in PhysicalDevices :
         LET r == rate_physical_device(device, QueueFamilyIndices_new)
         IN /\ rate_call' = [op |-> "rate", device |-> device,
                             rating |-> r.rating, panic |-> r.panic]
            /\ panic' = r.panic
    /\ UNCHANGED <<pd_pc, pd_count, pd_rated, pd_best, pd_ret, not_sel_vars>>

\* choose_physical_device: iterate_physical_devices(instance)?
IteratePhysicalDevices ==
    /\ panic = NoPanic
    /\ pd_pc = "idle"
    /\ rate_call.op = "none"
    /\ \E enumerate_ok \in BOOLEAN, n \in 0..MaxDevices :
         IF enumerate_ok
         THEN /\ pd_pc' = "rating"
              /\ pd_count' = n
              /\ UNCHANGED pd_ret
         ELSE /\ n = 0
              /\ pd_pc' = "done"
              /\ pd_ret' = ChoiceErr("enumerate_physical_devices")
              /\ UNCHANGED pd_count
    /\ UNCHANGED <<rate_call, pd_rated, pd_best, panic, not_sel_vars>>

\* max_by_key pulls the next device through the map closure, which rates
\* it with a clone of the caller's chooser.
RateNext ==
    /\ panic = NoPanic
    /\ pd_pc = "rating"
    /\ Len(pd_rated) < pd_count
    /\ \E info \in Candidates :
         LET pdev == Len(pd_rated) + 1
             r == rate_physical_device(info, QueueFamilyIndices_new)
             next == Rated(r.rating, pdev, info)
         IN IF r.panic # NoPanic
            THEN /\ panic' = r.panic
                 /\ pd_pc' = "panicked"
                 /\ UNCHANGED <<pd_rated, pd_best>>
            ELSE /\ pd_rated' = Append(pd_rated, r.rating)
                 /\ pd_best' = IF is_some(pd_best)
                               THEN Some(max_by_key(unwrap(pd_best), next))
                               ELSE Some(next)
                 /\ UNCHANGED <<pd_pc, panic>>
    /\ UNCHANGED <<rate_call, pd_count, pd_ret, not_sel_vars>>

\* the iterator is exhausted: the rest of choose_physical_device
ChoosePhysicalDevice ==
    /\ panic = NoPanic
    /\ pd_pc = "rating"
    /\ Len(pd_rated) = pd_count
    /\ LET r == choose_physical_device(pd_best, QueueFamilyIndices_new)
       IN /\ pd_ret' = r
          /\ panic' = r.panic
          /\ pd_pc' = IF r.panic = NoPanic THEN "done" ELSE "panicked"
    /\ UNCHANGED <<rate_call, pd_count, pd_rated, pd_best, not_sel_vars>>

InitSelection ==
    /\ rate_call = [op |-> "none", device |-> NoDevice, rating |-> 0, panic |-> NoPanic]
    /\ pd_pc = "idle"
    /\ pd_count = 0
    /\ pd_rated = <<>>
    /\ pd_best = None
    /\ pd_ret = ChoiceErr("")

NextSelection ==
    \/ RatePhysicalDevice
    \/ IteratePhysicalDevices
    \/ RateNext
    \/ ChoosePhysicalDevice

-----------------------------------------------------------------------------
(* vk/selectors.rs: DrawQueueFamilySelector *)

DrawQueueFamilySelector_new == [graphics |-> None, present |-> None]

\* filter_present_qf asking for the support of the family only
DrawQueueFamilySelector_filter_present_qf_SupportOnly(device, id, props) ==
    props.surface_support

\* DrawQueueFamilySelector::filter_present_qf: a failing surface query is
\* a family that cannot present.
DrawQueueFamilySelector_filter_present_qf(device, id, props) ==
    IF ~props.surface_support THEN FALSE
    ELSE IF ~device.surface_info.ok THEN FALSE
    ELSE check_surface_info(device.surface_info)

DrawQueueFamilySelector_filter_graphic_qf(device, id, props) == props.graphics

\* inspect_queue_family keeping the first family it found
inspect_queue_family_KeepsFirst(self, physical_device, queue_family_id, queue_family_properties) ==
    [graphics |->
        IF /\ self.graphics = None
           /\ DrawQueueFamilySelector_filter_graphic_qf(physical_device, queue_family_id,
                                                        queue_family_properties)
        THEN Some(queue_family_id) ELSE self.graphics,
     present |->
        IF /\ self.present = None
           /\ DrawQueueFamilySelector_filter_present_qf(physical_device, queue_family_id,
                                                        queue_family_properties)
        THEN Some(queue_family_id) ELSE self.present]

\* QueueFamilySelector::inspect_queue_family
inspect_queue_family(self, physical_device, queue_family_id, queue_family_properties) ==
    [graphics |->
        IF DrawQueueFamilySelector_filter_graphic_qf(physical_device, queue_family_id,
                                                     queue_family_properties)
        THEN Some(queue_family_id) ELSE self.graphics,
     present |->
        IF DrawQueueFamilySelector_filter_present_qf(physical_device, queue_family_id,
                                                     queue_family_properties)
        THEN Some(queue_family_id) ELSE self.present]

\* QueueFamilySelector::is_complete
is_complete(self) == is_some(self.graphics) /\ is_some(self.present)

\* One (family id, priorities) entry; the priority 0.0f32 is written 0.
Requirement(id) == <<id, <<0>>>>

\* requirements listing the present family again when it is the graphics one
requirements_AlwaysTwo(self) ==
    IF ~is_complete(self)
    THEN [ret |-> <<>>, panic |-> "asked for requirements of an unscompleted chooser!"]
    ELSE [ret |-> <<Requirement(unwrap(self.graphics)), Requirement(unwrap(self.present))>>,
          panic |-> NoPanic]

\* requirements answering an incomplete chooser with an empty list
requirements_Unchecked(self) ==
    IF ~is_complete(self)
    THEN [ret |-> <<>>, panic |-> NoPanic]
    ELSE IF unwrap(self.graphics) = unwrap(self.present)
    THEN [ret |-> <<Requirement(unwrap(self.graphics))>>, panic |-> NoPanic]
    ELSE [ret |-> <<Requirement(unwrap(self.graphics)), Requirement(unwrap(self.present))>>,
          panic |-> NoPanic]

\* QueueFamilySelector::requirements
requirements(self) ==
    IF ~is_complete(self)
    THEN [ret |-> <<>>, panic |-> "asked for requirements of an unscompleted chooser!"]
    ELSE LET g == unwrap(self.graphics)
             p == unwrap(self.present)
         IN IF g = p
            THEN [ret |-> <<Requirement(g)>>, panic |-> NoPanic]
            ELSE [ret |-> <<Requirement(g), Requirement(p)>>, panic |-> NoPanic]

\* Queue: the driver's queue index of family family (get_device_queue)
Queue_new(family, index) == [family |-> family, index |-> index]

NoQueue == [family |-> -1, index |-> -1]

NoDrawQueues == [graphics |-> NoQueue, present |-> NoQueue]

\* queues_raw.iter().find(|(id, _)| *id == family).unwrap().1[0].clone()
find_queue(queues_raw, family) ==
    LET found == {i \in DOMAIN queues_raw : queues_raw[i][1] = family}
    IN IF found = {}
       THEN [ret |-> NoQueue, panic |-> "called Option::unwrap() on a None value"]
       ELSE IF Len(queues_raw[First(found)][2]) = 0
       THEN [ret |-> NoQueue, panic |-> "index out of bounds"]
       ELSE [ret |-> queues_raw[First(found)][2][1], panic |-> NoPanic]

\* fill_queues handing out the two queues the wrong way round
fill_queues_Swapped(self, queues_raw) ==
    IF ~is_complete(self)
    THEN [ret |-> NoDrawQueues, panic |-> "filled queues of an unscompleted chooser!"]
    ELSE LET present == find_queue(queues_raw, unwrap(self.graphics))
             graphics == find_queue(queues_raw, unwrap(self.present))
         IN IF present.panic # NoPanic
            THEN [ret |-> NoDrawQueues, panic |-> present.panic]
            ELSE IF graphics.panic # NoPanic
            THEN [ret |-> NoDrawQueues, panic |-> graphics.panic]
            ELSE [ret |-> [graphics |-> graphics.ret, present |-> present.ret],
                  panic |-> NoPanic]

\* QueueFamilySelector::fill_queues
fill_queues(self, queues_raw) ==
    IF ~is_complete(self)
    THEN [ret |-> NoDrawQueues, panic |-> "filled queues of an unscompleted chooser!"]
    ELSE LET present == find_queue(queues_raw, unwrap(self.present))
             graphics == find_queue(queues_raw, unwrap(self.graphics))
         IN IF present.panic # NoPanic
            THEN [ret |-> NoDrawQueues, panic |-> present.panic]
            ELSE IF graphics.panic # NoPanic
            THEN [ret |-> NoDrawQueues, panic |-> graphics.panic]
            ELSE [ret |-> [graphics |-> graphics.ret, present |-> present.ret],
                  panic |-> NoPanic]

-----------------------------------------------------------------------------
(* vk/device.rs: fill_selector *)

\* The queues get_device_queue returns for one requirement.
RawQueues(requirement) ==
    <<requirement[1],
      [queue_index \in 1..Len(requirement[2]) |-> Queue_new(requirement[1], queue_index - 1)]>>

\* fill_selector on a device that was created with queue_counts[id] queues
\* of family id
fill_selector(queue_counts, selector) ==
    LET r == requirements(selector)
        invalid == {i \in DOMAIN r.ret :
                      \/ r.ret[i][1] >= Len(queue_counts)
                      \/ queue_counts[r.ret[i][1] + 1] < Len(r.ret[i][2])}
        queues_raw == [i \in DOMAIN r.ret |-> RawQueues(r.ret[i])]
        filled == fill_queues(selector, queues_raw)
    IN IF r.panic # NoPanic
       THEN [ret |-> NoDrawQueues, queues_raw |-> <<>>, panic |-> r.panic]
       ELSE IF invalid # {}
       THEN [ret |-> NoDrawQueues, queues_raw |-> <<>>,
             panic |-> "queue selector returned invalid requirements!"]
       ELSE [ret |-> filled.ret, queues_raw |-> queues_raw, panic |-> filled.panic]

-----------------------------------------------------------------------------
(* The selector at work *)

\* The devices a selector is run on: any queue families, any surface report.
SelectorDevices ==
    {d \in PhysicalDevices :
        /\ d.device_type = "DISCRETE_GPU"
        /\ d.extensions = AllExtensions
        /\ d.vulkan_memory_model /\ d.geometry_shader = VK_TRUE}

\* Device.queue_counts of a device with n queue families (DeviceBuilder
\* leaves 0 or the number of priorities asked for, which is 1)
QueueCounts(n) == [1..n -> {0, 1}]

\* Raw queue lists a caller may hand to fill_queues.
RawQueueLists ==
    LET entries == {<<id, qs>> : id \in 0..(MaxFamilies - 1), qs \in {<<>>, <<0>>}}
        entry(e) == <<e[1], [i \in DOMAIN e[2] |-> Queue_new(e[1], e[2][i])]>>
    IN UNION {{[i \in 1..n |-> entry(l[i])] : l \in [1..n -> entries]} : n \in 0..2}

SelectorCall(op, reqs, queues, queues_raw, result) ==
    [op |-> op, pre |-> dq_selector, reqs |-> reqs, queues |-> queues,
     queues_raw |-> queues_raw, panic |-> result]

\* A fresh selector is given a physical device to inspect.
BeginInspection ==
    /\ panic = NoPanic
    /\ dq_call.op = "new"
    /\ \E device \in SelectorDevices : dq_device' = device
    /\ dq_call' = SelectorCall("begin", <<>>, NoDrawQueues, <<>>, NoPanic)
    /\ UNCHANGED <<dq_selector, dq_next, panic, not_dq_vars>>

\* inspect_queue_family on the next family of the device, in index order
InspectQueueFamily ==
    /\ panic = NoPanic
    /\ dq_call.op # "new"
    /\ dq_next < Len(dq_device.queue_families)
    /\ dq_selector' = inspect_queue_family(dq_selector, dq_device, dq_next,
                                           dq_device.queue_families[dq_next + 1])
    /\ dq_next' = dq_next + 1
    /\ dq_call' = SelectorCall("inspect_queue_family", <<>>, NoDrawQueues, <<>>, NoPanic)
    /\ UNCHANGED <<dq_device, panic, not_dq_vars>>

Requirements ==
    /\ panic = NoPanic
    /\ dq_call.op # "new"
    /\ LET r == requirements(dq_selector)
       IN /\ dq_call' = SelectorCall("requirements", r.ret, NoDrawQueues, <<>>, r.panic)
          /\ panic' = r.panic
    /\ UNCHANGED <<dq_device, dq_selector, dq_next, not_dq_vars>>

FillQueues ==
    /\ panic = NoPanic
    /\ dq_call.op # "new"
    /\ \E queues_raw \in RawQueueLists :
         LET r == fill_queues(dq_selector, queues_raw)
         IN /\ dq_call' = SelectorCall("fill_queues", <<>>, r.ret, queues_raw, r.panic)
            /\ panic' = r.panic
    /\ UNCHANGED <<dq_device, dq_selector, dq_next, not_dq_vars>>

FillSelector ==
    /\ panic = NoPanic
    /\ dq_call.op # "new"
    /\ \E queue_counts \in QueueCounts(Len(dq_device.queue_families)) :
         LET r == fill_selector(queue_counts, dq_selector)
         IN /\ dq_call' = SelectorCall("fill_selector", requirements(dq_selector).ret,
                                       r.ret, r.queues_raw, r.panic)
            /\ panic' = r.panic
    /\ UNCHANGED <<dq_device, dq_selector, dq_next, not_dq_vars>>

InitSelector ==
    /\ dq_device = NoDevice
    /\ dq_selector = DrawQueueFamilySelector_new
    /\ dq_next = 0
    /\ dq_call = [op |-> "new", pre |-> DrawQueueFamilySelector_new, reqs |-> <<>>,
                  queues |-> NoDrawQueues, queues_raw |-> <<>>, panic |-> NoPanic]

NextSelector ==
    \/ BeginInspection
    \/ InspectQueueFamily
    \/ Requirements
    \/ FillQueues
    \/ FillSelector

-----------------------------------------------------------------------------
(* vk/device/swapchain.rs: SwapchainManager::create_swapchain, Drop *)

\* One call that reached the driver: on which chain handle, with what.
SwapchainCall(call, chain, arg) == [call |-> call, chain |-> chain, arg |-> arg]

NoSwapchain ==
    [swapchain_khr |-> 0, format |-> None, present_mode |-> None,
     images |-> <<>>, views |-> <<>>]

SwapchainResult(ret, swapchain, calls, result) ==
    [ret |-> ret, swapchain |-> swapchain, calls |-> calls, panic |-> result]

\* The image views built over images, one driver call each.
create_views(swapchain_khr, images) ==
    [i \in DOMAIN images |-> SwapchainCall("create_image_view", swapchain_khr, images[i])]

\* create_swapchain building no view for the first image
create_swapchain_SkipsFirstView(swapchain_khr, surface_info, capabilities, create_ok, images_ok, image_count, views_ok) ==
    LET format == choose_format(surface_info.formats)
        present_mode == choose_present_mode(surface_info.present_modes)
        created == <<SwapchainCall("create_swapchain", swapchain_khr,
                                   choose_image_count(capabilities))>>
        images == [i \in 1..image_count |-> i]
    IN IF ~surface_info.ok \/ ~is_some(format) \/ ~capabilities.extent_defined
          \/ ~is_some(present_mode) \/ ~create_ok \/ ~images_ok \/ ~views_ok
       THEN SwapchainResult("Err", NoSwapchain, <<>>, NoPanic)
       ELSE SwapchainResult("Ok",
                [swapchain_khr |-> swapchain_khr, format |-> format,
                 present_mode |-> present_mode, images |-> images,
                 views |-> SubSeq(images, 2, Len(images))],
                created \o SubSeq(create_views(swapchain_khr, images), 2, Len(images)),
                NoPanic)

\* create_swapchain answering Ok when the driver created no chain
create_swapchain_IgnoresError(swapchain_khr, surface_info, capabilities, create_ok, images_ok, image_count, views_ok) ==
    SwapchainResult("Ok",
        [swapchain_khr |-> swapchain_khr, format |-> choose_format(surface_info.formats),
         present_mode |-> choose_present_mode(surface_info.present_modes),
         images |-> <<>>, views |-> <<>>],
        IF create_ok
        THEN <<SwapchainCall("create_swapchain", swapchain_khr,
                             choose_image_count(capabilities))>>
        ELSE <<>>,
        NoPanic)

\* SwapchainManager::create_swapchain. swapchain_khr is the handle the
\* driver gives the chain if it creates one, image_count the number of
\* images it makes for it.
create_swapchain(swapchain_khr, surface_info, capabilities, create_ok, images_ok, image_count, views_ok) ==
    LET format == choose_format(surface_info.formats)
        present_mode == choose_present_mode(surface_info.present_modes)
        created == <<SwapchainCall("create_swapchain", swapchain_khr,
                                   choose_image_count(capabilities))>>
        images == [i \in 1..image_count |-> i]
    IN IF ~surface_info.ok
       THEN SwapchainResult("Err", NoSwapchain, <<>>, NoPanic)
       ELSE IF ~is_some(format)
       THEN SwapchainResult("panic", NoSwapchain, <<>>,
                            "called Option::unwrap() on a None value")
       ELSE IF ~capabilities.extent_defined
       THEN SwapchainResult("panic", NoSwapchain, <<>>,
                            "not yet implemented: swap extent was not set")
       ELSE IF ~is_some(present_mode)
       THEN SwapchainResult("panic", NoSwapchain, <<>>,
                            "called Option::unwrap() on a None value")
       ELSE IF ~create_ok
       THEN SwapchainResult("Err", NoSwapchain, <<>>, NoPanic)
       ELSE IF ~images_ok
       THEN SwapchainResult("Err", NoSwapchain, created, NoPanic)
       ELSE IF ~views_ok /\ image_count > 0
       THEN SwapchainResult("panic", NoSwapchain, created, "failed to create_image_view")
       ELSE SwapchainResult("Ok",
                [swapchain_khr |-> swapchain_khr, format |-> format,
                 present_mode |-> present_mode, images |-> images, views |-> images],
                created \o create_views(swapchain_khr, images), NoPanic)

\* The for loop of Drop: views.pop() until the Vec is empty.
RECURSIVE pop_views(_, _)
pop_views(swapchain_khr, views) ==
    IF views = <<>> THEN <<>>
    ELSE <<SwapchainCall("destroy_image_view", swapchain_khr, views[Len(views)])>>
         \o pop_views(swapchain_khr, SubSeq(views, 1, Len(views) - 1))

\* Drop for Swapchain: the driver calls it makes, in order
Swapchain_drop(self) ==
    <<SwapchainCall("destroy_swapchain", self.swapchain_khr, 0)>>
    \o pop_views(self.swapchain_khr, self.views)

-----------------------------------------------------------------------------
(* The extension managers at work *)

\* The names a manager holds as available, and those it holds as enabled.
DeviceView(self) == [available |-> self.available, enabled |-> self.enabled]

InstanceView(self) ==
    [available |-> {self.available[j].name : j \in DOMAIN self.available},
     enabled |-> {self.available[j].name :
                    j \in {k \in DOMAIN self.available : self.available[k].enabled}}]

NoView == [available |-> {}, enabled |-> {}]

ExtCall(op, kind, pre, post, required, ret, result) ==
    [op |-> op, kind |-> kind, pre |-> pre, post |-> post, required |-> required,
     ret |-> ret, panic |-> result]

DeviceExtensionManagerInit ==
    /\ panic = NoPanic
    /\ dem = None /\ em = None /\ vlm = None
    /\ \E enumerate_ok \in BOOLEAN, report \in DriverReports :
         LET r == DeviceExtensionManager_init(enumerate_ok, report)
         IN /\ dem' = r.self
            /\ ext_call' = ExtCall("init", "device", NoView,
                                   IF is_some(r.self) THEN DeviceView(unwrap(r.self))
                                   ELSE NoView,
                                   <<>>, r.ret, NoPanic)
    /\ UNCHANGED <<em, panic, vlm, ext_names, not_ext_vars>>

DeviceCheckExtensions ==
    /\ panic = NoPanic
    /\ is_some(dem)
    /\ \E extensions \in RequiredLists(ExtensionNames) :
         ext_call' = ExtCall("check_extensions", "device", DeviceView(unwrap(dem)),
                             DeviceView(unwrap(dem)), extensions,
                             DeviceExtensionManager_check_extensions(
                                 unwrap(dem).available, extensions),
                             NoPanic)
    /\ UNCHANGED <<dem, em, panic, vlm, ext_names, not_ext_vars>>

DeviceAddExtensions ==
    /\ panic = NoPanic
    /\ is_some(dem)
    /\ \E extensions \in RequiredLists(ExtensionNames) :
         LET r == DeviceExtensionManager_add_extensions(unwrap(dem), extensions)
         IN /\ dem' = Some(r.self)
            /\ ext_call' = ExtCall("add_extensions", "device", DeviceView(unwrap(dem)),
                                   DeviceView(r.self), extensions, r.ret, r.panic)
    /\ UNCHANGED <<em, panic, vlm, ext_names, not_ext_vars>>

ExtensionManagerInit ==
    /\ panic = NoPanic
    /\ dem = None /\ em = None /\ vlm = None
    /\ \E result \in {"SUCCESS", "ERROR_OUT_OF_HOST_MEMORY", "ERROR_OUT_OF_DEVICE_MEMORY"},
          report \in DriverReports :
         LET r == ExtensionManager_init(result, report)
         IN /\ em' = r.self
            /\ ext_call' = ExtCall("init", "instance", NoView,
                                   IF is_some(r.self) THEN InstanceView(unwrap(r.self))
                                   ELSE NoView,
                                   <<>>, IF r.panic = NoPanic THEN ExtOk ELSE NoRet, r.panic)
            /\ panic' = r.panic
    /\ UNCHANGED <<dem, vlm, ext_names, not_ext_vars>>

InstanceCheckExtensions ==
    /\ panic = NoPanic
    /\ is_some(em)
    /\ \E extensions \in RequiredLists(ExtensionNames \cup {InteriorNul}) :
         LET r == ExtensionManager_check_extensions(unwrap(em), extensions)
         IN /\ ext_call' = ExtCall("check_extensions", "instance", InstanceView(unwrap(em)),
                                   InstanceView(unwrap(em)), extensions, r.ret, r.panic)
            /\ panic' = r.panic
    /\ UNCHANGED <<dem, em, vlm, ext_names, not_ext_vars>>

InstanceAddExtensions ==
    /\ panic = NoPanic
    /\ is_some(em)
    /\ \E extensions \in RequiredLists(ExtensionNames \cup {InteriorNul}) :
         LET r == ExtensionManager_add_extensions(unwrap(em), extensions)
         IN /\ em' = Some(r.self)
            /\ ext_call' = ExtCall("add_extensions", "instance", InstanceView(unwrap(em)),
                                   InstanceView(r.self), extensions, r.ret, r.panic)
            /\ panic' = r.panic
    /\ UNCHANGED <<dem, vlm, ext_names, not_ext_vars>>

\* The orders in which a HashSet may hand out its elements.
Orders(S) ==
    {seq \in UNION {[1..n -> S] : n \in {Cardinality(S)}} : Range(seq) = S}

DeviceListNames ==
    /\ panic = NoPanic
    /\ is_some(dem)
    /\ ext_call.op # "list"
    /\ \E names \in Orders(list_names(unwrap(dem))) : ext_names' = names
    /\ ext_call' = ExtCall("list", "device", DeviceView(unwrap(dem)),
                           DeviceView(unwrap(dem)), <<>>, ExtOk, NoPanic)
    /\ UNCHANGED <<dem, em, vlm, panic, not_ext_vars>>

InstanceListNames ==
    /\ panic = NoPanic
    /\ is_some(em)
    /\ ext_call.op # "list"
    /\ ext_names' = make_load_extension_list(unwrap(em))
    /\ ext_call' = ExtCall("list", "instance", InstanceView(unwrap(em)),
                           InstanceView(unwrap(em)), <<>>, ExtOk, NoPanic)
    /\ UNCHANGED <<dem, em, vlm, panic, not_ext_vars>>

ValidationLayerManagerInit ==
    /\ panic = NoPanic
    /\ dem = None /\ em = None /\ vlm = None
    /\ \E result \in {"SUCCESS", "ERROR_OUT_OF_HOST_MEMORY"}, report \in DriverReports :
         LET r == ValidationLayerManager_init(debug_assertions, result, report)
         IN /\ vlm' = r.self
            /\ ext_call' = ExtCall("init", "layers", NoView,
                                   IF is_some(r.self) THEN InstanceView(unwrap(r.self))
                                   ELSE NoView,
                                   <<>>, IF r.panic = NoPanic THEN ExtOk ELSE NoRet, r.panic)
            /\ panic' = r.panic
    /\ UNCHANGED <<dem, em, ext_names, not_ext_vars>>

AddLayers ==
    /\ panic = NoPanic
    /\ is_some(vlm)
    /\ \E layers \in RequiredLists(ExtensionNames \cup {InteriorNul}) :
         LET r == add_layers(debug_assertions, unwrap(vlm), layers)
         IN /\ vlm' = Some(r.self)
            /\ ext_call' = ExtCall("add_layers", "layers", InstanceView(unwrap(vlm)),
                                   InstanceView(r.self), layers, r.ret, r.panic)
            /\ ext_names' = IF r.ret = ExtOk /\ r.panic = NoPanic
                            THEN make_load_layer_list(debug_assertions, r.self)
                            ELSE ext_names
            /\ panic' = r.panic
    /\ UNCHANGED <<dem, em, not_ext_vars>>

InitExtensions ==
    /\ dem = None
    /\ em = None
    /\ vlm = None
    /\ ext_names = <<>>
    /\ ext_call = ExtCall("none", "none", NoView, NoView, <<>>, NoRet, NoPanic)

NextExtensions ==
    \/ DeviceExtensionManagerInit
    \/ DeviceCheckExtensions
    \/ DeviceAddExtensions
    \/ ExtensionManagerInit
    \/ InstanceCheckExtensions
    \/ InstanceAddExtensions
    \/ DeviceListNames
    \/ InstanceListNames
    \/ ValidationLayerManagerInit
    \/ AddLayers

-----------------------------------------------------------------------------
(* The swapchain at work *)

\* The format lists a surface may report.
FormatLists ==
    UNION {[1..n -> {B8G8R8A8_SRGB, R8G8B8A8_UNORM, B8G8R8A8_SRGB_LINEAR}] :
             n \in 0..MaxFormats}

\* vk::SurfaceCapabilitiesKHR: the image counts, and whether
\* current_extent.height is something else than u32::MAX
NoCapabilities == [min_image_count |-> 0, max_image_count |-> 0, extent_defined |-> FALSE]

\* The capabilities of the surfaces chains are created on.
ChainCapabilities ==
    {[min_image_count |-> 2, max_image_count |-> 0, extent_defined |-> e] : e \in BOOLEAN}

\* What the driver does with one create_swapchain: everything, or the first
\* call that fails.
DriverOutcomes == {"ok", "create_swapchain", "get_swapchain_images", "create_image_view"}

SwapchainFunctionCall(op, formats, capabilities, format, image_count) ==
    [op |-> op, formats |-> formats, capabilities |-> capabilities,
     format |-> format, image_count |-> image_count,
     ret |-> "none", chain |-> 0, old |-> 0, panic |-> NoPanic]

SwapchainMethodCall(op, ret, chain, old, result) ==
    [op |-> op, formats |-> <<>>, capabilities |-> NoCapabilities,
     format |-> None, image_count |-> 0,
     ret |-> ret, chain |-> chain, old |-> old, panic |-> result]

ChooseFormat ==
    /\ panic = NoPanic
    /\ sw_call.op = "none"
    /\ \E formats \in FormatLists :
         sw_call' = SwapchainFunctionCall("choose_format", formats, NoCapabilities,
                                          choose_format(formats), 0)
    /\ UNCHANGED <<sw_chains, sw_current, sw_driver, panic, not_sw_vars>>

ChooseImageCount ==
    /\ panic = NoPanic
    /\ sw_call.op = "none"
    /\ \E min_image_count \in 0..MaxImageCount, max_image_count \in 0..MaxImageCount :
         LET capabilities == [min_image_count |-> min_image_count,
                              max_image_count |-> max_image_count,
                              extent_defined |-> TRUE]
         IN sw_call' = SwapchainFunctionCall("choose_image_count", <<>>, capabilities,
                                             None, choose_image_count(capabilities))
    /\ UNCHANGED <<sw_chains, sw_current, sw_driver, panic, not_sw_vars>>

\* The chain handles the driver has given out are 1..Len(sw_chains).
NewHandle == Len(sw_chains) + 1

\* What a create_swapchain leaves in sw_chains: the Swapchain it returned,
\* or a chain the driver created and nobody owns.
Registered(r) ==
    IF r.ret = "Ok" THEN sw_chains \o <<[swapchain |-> r.swapchain, status |-> "alive"]>>
    ELSE IF r.calls # <<>>
    THEN sw_chains \o <<[swapchain |-> NoSwapchain, status |-> "leaked"]>>
    ELSE sw_chains

Dropped(chains, chain) == [chains EXCEPT ![chain].status = "dropped"]

MethodsEnabled ==
    /\ panic = NoPanic
    /\ sw_call.op \notin {"choose_format", "choose_image_count"}

\* create_swapchain with what the surface and the driver answer
CreateWith(Then(_)) ==
    \E surface_info \in SurfaceInfos, capabilities \in ChainCapabilities,
       outcome \in DriverOutcomes, image_count \in 0..MaxImages :
         Then(create_swapchain(NewHandle, surface_info, capabilities,
                               outcome # "create_swapchain",
                               outcome # "get_swapchain_images",
                               image_count,
                               outcome # "create_image_view"))

CreateSwapchain ==
    /\ MethodsEnabled
    /\ sw_current = None
    /\ Len(sw_chains) < MaxChains
    /\ LET Then(r) ==
            /\ sw_chains' = Registered(r)
            /\ sw_current' = IF r.ret = "Ok" THEN Some(NewHandle) ELSE None
            /\ sw_driver' = sw_driver \o r.calls
            /\ sw_call' = SwapchainMethodCall("create_swapchain", r.ret,
                                              IF r.ret = "Ok" THEN NewHandle ELSE 0,
                                              0, r.panic)
            /\ panic' = r.panic
       IN CreateWith(Then)
    /\ UNCHANGED not_sw_vars

\* Recreation on resize: a new chain is created while the application holds
\* the old one; when it has the new one, the old one is dropped.
RecreateSwapchain ==
    /\ MethodsEnabled
    /\ is_some(sw_current)
    /\ Len(sw_chains) < MaxChains
    /\ LET old == unwrap(sw_current)
           Then(r) ==
            /\ sw_chains' = IF r.ret = "Ok" THEN Dropped(Registered(r), old)
                            ELSE Registered(r)
            /\ sw_current' = IF r.ret = "Ok" THEN Some(NewHandle) ELSE sw_current
            /\ sw_driver' = sw_driver \o r.calls \o
                            IF r.ret = "Ok" THEN Swapchain_drop(sw_chains[old].swapchain)
                            ELSE <<>>
            /\ sw_call' = SwapchainMethodCall("recreate", r.ret,
                                              IF r.ret = "Ok" THEN NewHandle ELSE 0,
                                              old, r.panic)
            /\ panic' = r.panic
       IN CreateWith(Then)
    /\ UNCHANGED not_sw_vars

DropSwapchain ==
    /\ MethodsEnabled
    /\ is_some(sw_current)
    /\ LET chain == unwrap(sw_current)
       IN /\ sw_chains' = Dropped(sw_chains, chain)
          /\ sw_driver' = sw_driver \o Swapchain_drop(sw_chains[chain].swapchain)
          /\ sw_call' = SwapchainMethodCall("drop", "Ok", chain, 0, NoPanic)
    /\ sw_current' = None
    /\ UNCHANGED <<panic, not_sw_vars>>

InitSwapchain ==
    /\ sw_call = SwapchainMethodCall("none", "none", 0, 0, NoPanic)
    /\ sw_chains = <<>>
    /\ sw_current = None
    /\ sw_driver = <<>>

NextSwapchain ==
    \/ ChooseFormat
    \/ ChooseImageCount
    \/ CreateSwapchain
    \/ RecreateSwapchain
    \/ DropSwapchain

-----------------------------------------------------------------------------
(* Ownership: the references the structs hold, and the order of Drop *)

\* One object of each kind, as GraphicsPipelineBuilder::build and its caller
\* create them; a second swapchain of the SwapchainManager (Swapchain2); and
\* the framebuffer a call of Swapchain::create_framebuffers makes
\* (Framebuffer2).
Kinds ==
    {"Instance", "Surface", "Device", "Swapchain", "RenderPass", "Framebuffer",
     "PipelineLayout", "GraphicsPipeline", "CommandPool", "CommandBuffer", "Fence",
     "Semaphore", "Queue", "Swapchain2", "Framebuffer2"}

\* fields with a Queue that holds no reference to its Device
fields_QueueWithoutDevice(kind) ==
    CASE kind = "Instance" -> <<>>
      [] kind = "Surface" -> <<"Instance">>
      [] kind = "Device" -> <<"Instance", "Surface">>
      [] kind = "Swapchain" -> <<"Device", "Surface">>
      [] kind = "RenderPass" -> <<"Device", "Swapchain">>
      [] kind = "Framebuffer" -> <<"Device", "RenderPass">>
      [] kind = "PipelineLayout" -> <<"Device">>
      [] kind = "GraphicsPipeline" ->
            <<"Device", "CommandPool", "Swapchain", "PipelineLayout", "RenderPass",
              "Framebuffer", "CommandBuffer">>
      [] kind = "CommandPool" -> <<"Device">>
      [] kind = "CommandBuffer" -> <<"CommandPool", "Device">>
      [] kind = "Fence" -> <<"Device">>
      [] kind = "Semaphore" -> <<"Device">>
      [] kind = "Queue" -> <<>>
      [] kind = "Swapchain2" -> <<"Device", "Surface">>
      [] kind = "Framebuffer2" -> <<"Device", "RenderPass">>

\* fields with a CommandPool whose weak_self is an owning Arc<Self>
fields_PoolOwnsItself(kind) ==
    CASE kind = "Instance" -> <<>>
      [] kind = "Surface" -> <<"Instance">>
      [] kind = "Device" -> <<"Instance", "Surface">>
      [] kind = "Swapchain" -> <<"Device", "Surface">>
      [] kind = "RenderPass" -> <<"Device", "Swapchain">>
      [] kind = "Framebuffer" -> <<"Device", "RenderPass">>
      [] kind = "PipelineLayout" -> <<"Device">>
      [] kind = "GraphicsPipeline" ->
            <<"Device", "CommandPool", "Swapchain", "PipelineLayout", "RenderPass",
              "Framebuffer", "CommandBuffer">>
      [] kind = "CommandPool" -> <<"CommandPool", "Device">>
      [] kind = "CommandBuffer" -> <<"CommandPool", "Device">>
      [] kind = "Fence" -> <<"Device">>
      [] kind = "Semaphore" -> <<"Device">>
      [] kind = "Queue" -> <<"Device">>
      [] kind = "Swapchain2" -> <<"Device", "Surface">>
      [] kind = "Framebuffer2" -> <<"Device", "RenderPass">>

\* The owning fields of each struct (Arc<T>, or T held by value), in the
\* order of declaration, which is the order Rust drops them in after the
\* Drop body. Weak<Self> of CommandPool owns nothing.
fields(kind) ==
    CASE kind = "Instance" -> <<>>
      [] kind = "Surface" -> <<"Instance">>
      [] kind = "Device" -> <<"Instance", "Surface">>
      [] kind = "Swapchain" -> <<"Device", "Surface">>
      [] kind = "RenderPass" -> <<"Device", "Swapchain">>
      [] kind = "Framebuffer" -> <<"Device", "RenderPass">>
      [] kind = "PipelineLayout" -> <<"Device">>
      [] kind = "GraphicsPipeline" ->
            <<"Device", "CommandPool", "Swapchain", "PipelineLayout", "RenderPass",
              "Framebuffer", "CommandBuffer">>
      [] kind = "CommandPool" -> <<"Device">>
      [] kind = "CommandBuffer" -> <<"CommandPool", "Device">>
      [] kind = "Fence" -> <<"Device">>
      [] kind = "Semaphore" -> <<"Device">>
      [] kind = "Queue" -> <<"Device">>
      [] kind = "Swapchain2" -> <<"Device", "Surface">>
      [] kind = "Framebuffer2" -> <<"Device", "RenderPass">>

\* The fields of holder behind field number k: a value being dropped still
\* holds them while field k is released.
Later(holder, k) == {<<holder, j>> : j \in (k + 1)..Len(fields(holder))}

\* Arc::strong_count(object) > 0: the application, an object whose Drop has
\* not run, or a field not yet released of a value being dropped holds it.
Referenced(object, refs, gone, unreleased) ==
    \/ object \in refs
    \/ \E holder \in Kinds \ gone : object \in Range(fields(holder))
    \/ \E f \in unreleased : fields(f[1])[f[2]] = object

\* Dropping a value: its Drop body runs (the handle is destroyed), then its
\* fields are released one after the other; a field that was the last
\* reference to its object drops that object in turn.
RECURSIVE drop_value(_, _, _, _)
RECURSIVE release_fields(_, _, _, _, _)
drop_value(object, refs, done, unreleased) ==
    release_fields(object, 1, refs,
                   [destroyed |-> done.destroyed \cup {object},
                    order |-> Append(done.order, object)],
                   unreleased)

release_fields(holder, k, refs, done, unreleased) ==
    IF k > Len(fields(holder)) THEN done
    ELSE LET object == fields(holder)[k]
             still == unreleased \cup Later(holder, k)
             after == IF \/ object \in done.destroyed
                         \/ Referenced(object, refs, done.destroyed, still)
                      THEN done
                      ELSE drop_value(object, refs, done, still)
         IN release_fields(holder, k + 1, refs, after, unreleased)

\* What does not exist yet, and so holds nothing: the second swapchain
\* before create_swapchain is called again, the framebuffer before
\* create_framebuffers is.
Unbuilt ==
    ({"Swapchain2"} \ (own_held \cup own_destroyed))
        \cup (IF own_built = None THEN {"Framebuffer2"} ELSE {})

\* The application drops its reference to object.
Release(object) ==
    LET refs == own_held \ {object}
        before == [destroyed |-> own_destroyed \cup Unbuilt, order |-> <<>>]
        done == IF Referenced(object, refs, before.destroyed, {})
                THEN before
                ELSE drop_value(object, refs, before, {})
    IN /\ own_held' = refs
       /\ own_destroyed' = done.destroyed \ Unbuilt
       /\ own_last' = done.order
       /\ UNCHANGED <<own_built, panic, not_own_vars>>

\* The application drops one of its references, whichever.
ReleaseReference ==
    /\ panic = NoPanic
    /\ \E object \in own_held : Release(object)

\* What a framebuffer is built from and with, and what holds those.
FramebufferChain ==
    {"Swapchain", "Swapchain2", "RenderPass", "Framebuffer", "Framebuffer2",
     "GraphicsPipeline"}

\* The application drops its reference to a swapchain, a render pass, a
\* framebuffer or the pipeline, and keeps the others.
ReleaseBuilt ==
    /\ panic = NoPanic
    /\ \E object \in own_held \cap FramebufferChain : Release(object)

\* SwapchainManager::create_swapchain called a second time: another
\* Swapchain of the same device and surface.
CreateSecondSwapchain ==
    /\ panic = NoPanic
    /\ "Swapchain2" \in Unbuilt
    /\ {"Device", "Surface"} \subseteq own_held
    /\ own_held' = own_held \cup {"Swapchain2"}
    /\ own_last' = <<>>
    /\ UNCHANGED <<own_destroyed, own_built, panic, not_own_vars>>

\* Swapchain::create_framebuffers(&self, render_pass): the framebuffer is
\* made over the views of self and is given the device of self and the
\* render pass of the argument, whichever swapchain that was built from.
CreateFramebuffers ==
    /\ panic = NoPanic
    /\ own_built = None
    /\ "RenderPass" \in own_held
    /\ \E self \in {"Swapchain", "Swapchain2"} \cap own_held :
         own_built' = Some(self)
    /\ own_held' = own_held \cup {"Framebuffer2"}
    /\ own_last' = <<>>
    /\ UNCHANGED <<own_destroyed, panic, not_own_vars>>

\* What GraphicsPipelineBuilder::build and its caller create; the
\* application holds a reference to each object but the PipelineLayout,
\* which the GraphicsPipeline holds by value.
InitOwnership ==
    /\ own_held = Kinds \ {"PipelineLayout", "Swapchain2", "Framebuffer2"}
    /\ own_destroyed = {}
    /\ own_last = <<>>
    /\ own_built = None

NextOwnership == ReleaseReference

NextFramebuffers ==
    \/ CreateSecondSwapchain
    \/ CreateFramebuffers
    \/ ReleaseBuilt

-----------------------------------------------------------------------------
(* vk.rs: VulkanManager and the stages of its initialisation *)

\* enum VulkanInitStage of vk.rs, and the Instance that require_instance names
VulkanInitStage == {"Entry", "WindowManager", "InstanceManager", "Surface"}

\* Err(Box::new(VulkanInitOrderError { attempted_stage, requiered_stage }))
VulkanInitOrderError(attempted_stage, requiered_stage) ==
    [tag |-> "Err", error |-> "VulkanInitOrderError",
     attempted_stage |-> attempted_stage, requiered_stage |-> requiered_stage]

\* Err(VulkanInitStageError::new(stage))
VulkanInitStageError(stage) ==
    [tag |-> "Err", error |-> "VulkanInitStageError",
     attempted_stage |-> "none", requiered_stage |-> stage]

\* Any other Err the ? operator passes on.
OtherError(error) ==
    [tag |-> "Err", error |-> error, attempted_stage |-> "none",
     requiered_stage |-> "none"]

ManagerOk ==
    [tag |-> "Ok", error |-> "none", attempted_stage |-> "none",
     requiered_stage |-> "none"]

\* What a method of the managers leaves: the manager, what it returned, and
\* the panic it ended in if it did.
ManagerResult(self, ret, result) == [self |-> self, ret |-> ret, panic |-> result]

\* VulkanManager::new: Self::default()
VulkanManager_new == [entry |-> None, instance_manager |-> None, window_manager |-> None]

\* WindowManager::init
WindowManager_init == [surface |-> None, instance |-> None]

\* InstanceManager::init
InstanceManager_init == [instance |-> None]

\* InstanceManager::require_instance
require_instance(self) ==
    IF self.instance = None THEN VulkanInitStageError("Instance") ELSE ManagerOk

\* InstanceManager::init_instance: the instance is stored when
\* create_instance returned it; a name the loader does not have is an Err,
\* a failure of create_instance a panic.
InstanceManager_init_instance(self, result) ==
    CASE result = "Unavailable" ->
            ManagerResult(self, OtherError("InstanceInitError"), NoPanic)
      [] result = "Failed" ->
            ManagerResult(self, ManagerOk, "fatal: failed to create_instance")
      [] OTHER ->
            ManagerResult([self EXCEPT !.instance = Some("Instance")], ManagerOk, NoPanic)

\* VulkanManager::init_entry
init_entry(self) ==
    ManagerResult([self EXCEPT !.entry = Some("Entry")], ManagerOk, NoPanic)

\* VulkanManager::init_window_manager
init_window_manager(self) ==
    ManagerResult([self EXCEPT !.window_manager = Some(WindowManager_init)],
                  ManagerOk, NoPanic)

\* init_instance that looks for the window manager before the entry point
init_instance_WindowManagerFirst(self, extensions_ok, result) ==
    IF self.window_manager = None
    THEN ManagerResult(self, VulkanInitOrderError("InstanceManager", "WindowManager"),
                       NoPanic)
    ELSE IF self.entry = None
    THEN ManagerResult(self, VulkanInitOrderError("InstanceManager", "Entry"), NoPanic)
    ELSE IF ~extensions_ok
    THEN ManagerResult(self, OtherError("get_vk_extensions"), NoPanic)
    ELSE LET r == InstanceManager_init_instance(InstanceManager_init, result)
         IN IF r.panic # NoPanic \/ r.ret.tag = "Err"
            THEN ManagerResult(self, r.ret, r.panic)
            ELSE ManagerResult([self EXCEPT !.instance_manager = Some(r.self)],
                               ManagerOk, NoPanic)

\* init_instance that does not look for the window manager
init_instance_WithoutWindowManager(self, extensions_ok, result) ==
    IF self.entry = None
    THEN ManagerResult(self, VulkanInitOrderError("InstanceManager", "Entry"), NoPanic)
    ELSE LET r == InstanceManager_init_instance(InstanceManager_init, result)
         IN IF r.panic # NoPanic \/ r.ret.tag = "Err"
            THEN ManagerResult(self, r.ret, r.panic)
            ELSE ManagerResult([self EXCEPT !.instance_manager = Some(r.self)],
                               ManagerOk, NoPanic)

\* VulkanManager::init_instance
init_instance(self, extensions_ok, result) ==
    IF self.entry = None
    THEN ManagerResult(self, VulkanInitOrderError("InstanceManager", "Entry"), NoPanic)
    ELSE IF self.window_manager = None
    THEN ManagerResult(self, VulkanInitOrderError("InstanceManager", "WindowManager"),
                       NoPanic)
    ELSE IF ~extensions_ok
    THEN ManagerResult(self, OtherError("get_vk_extensions"), NoPanic)
    ELSE LET r == InstanceManager_init_instance(InstanceManager_init, result)
         IN IF r.panic # NoPanic \/ r.ret.tag = "Err"
            THEN ManagerResult(self, r.ret, r.panic)
            ELSE ManagerResult([self EXCEPT !.instance_manager = Some(r.self)],
                               ManagerOk, NoPanic)

\* WindowManager::init_surface: create_surface of the instance manager
\* (require_instance, then the window's vulkan_create_surface)
WindowManager_init_surface(self, instance, create_ok) ==
    LET required == require_instance(instance)
    IN IF required.tag = "Err" THEN ManagerResult(self, required, NoPanic)
       ELSE IF ~create_ok
       THEN ManagerResult(self, OtherError("vulkan_create_surface"), NoPanic)
       ELSE ManagerResult([surface |-> Some("SurfaceKHR"), instance |-> Some(instance)],
                          ManagerOk, NoPanic)

\* VulkanManager::init_surface
init_surface(self, create_ok) ==
    IF self.instance_manager = None
    THEN ManagerResult(self, VulkanInitOrderError("Surface", "InstanceManager"), NoPanic)
    ELSE IF self.window_manager = None
    THEN ManagerResult(self, ManagerOk,
                       "window_manager is always initialized at this point")
    ELSE LET r == WindowManager_init_surface(unwrap(self.window_manager),
                                             unwrap(self.instance_manager), create_ok)
         IN ManagerResult([self EXCEPT !.window_manager = Some(r.self)], r.ret, r.panic)

\* The methods of InstanceManager that start with require_instance()?
InstanceOperations ==
    {"make_surface_instance", "create_surface", "enumerate_physical_devices",
     "get_physical_device_info", "create_device", "create_swapchain",
     "destroy_swapchain"}

\* One of them: the Err of require_instance, or else what the driver returns.
instance_operation(self, driver_ok) ==
    LET required == require_instance(self)
    IN IF required.tag = "Err" THEN ManagerResult(self, required, NoPanic)
       ELSE IF ~driver_ok THEN ManagerResult(self, OtherError("vk::Result"), NoPanic)
       ELSE ManagerResult(self, ManagerOk, NoPanic)

\* A call on the VulkanManager or on the InstanceManager, with what the
\* manager was before and is after.
ManagerCall(op, pre, r) ==
    /\ vm_call' = [op |-> op, pre |-> pre, post |-> r.self, ret |-> r.ret,
                   panic |-> r.panic]
    /\ panic' = r.panic

InitEntry ==
    /\ panic = NoPanic
    /\ LET r == init_entry(vm)
       IN vm' = r.self /\ ManagerCall("init_entry", vm, r)
    /\ UNCHANGED <<im, not_mgr_vars>>

InitWindowManager ==
    /\ panic = NoPanic
    /\ LET r == init_window_manager(vm)
       IN vm' = r.self /\ ManagerCall("init_window_manager", vm, r)
    /\ UNCHANGED <<im, not_mgr_vars>>

InitInstance ==
    /\ panic = NoPanic
    /\ \E extensions_ok \in BOOLEAN, result \in {"Ok", "Unavailable", "Failed"} :
         LET r == init_instance(vm, extensions_ok, result)
         IN vm' = r.self /\ ManagerCall("init_instance", vm, r)
    /\ UNCHANGED <<im, not_mgr_vars>>

InitSurface ==
    /\ panic = NoPanic
    /\ \E create_ok \in BOOLEAN :
         LET r == init_surface(vm, create_ok)
         IN vm' = r.self /\ ManagerCall("init_surface", vm, r)
    /\ UNCHANGED <<im, not_mgr_vars>>

\* InstanceManager::init_instance on the InstanceManager of its own.
InstanceManagerInitInstance ==
    /\ panic = NoPanic
    /\ im.instance = None
    /\ \E result \in {"Ok", "Unavailable", "Failed"} :
         LET r == InstanceManager_init_instance(im, result)
         IN im' = r.self /\ ManagerCall("InstanceManager::init_instance", im, r)
    /\ UNCHANGED <<vm, not_mgr_vars>>

\* An instance-dependent method on the InstanceManager of its own.
InstanceOperation ==
    /\ panic = NoPanic
    /\ \E op \in InstanceOperations, driver_ok \in BOOLEAN :
         LET r == instance_operation(im, driver_ok)
         IN im' = r.self /\ ManagerCall(op, im, r)
    /\ UNCHANGED <<vm, not_mgr_vars>>

InitManagers ==
    /\ vm = VulkanManager_new
    /\ im = InstanceManager_init
    /\ vm_call = [op |-> "none", pre |-> VulkanManager_new, post |-> VulkanManager_new,
                  ret |-> ManagerOk, panic |-> NoPanic]

NextManagers ==
    \/ InitEntry
    \/ InitWindowManager
    \/ InitInstance
    \/ InitSurface
    \/ InstanceManagerInitInstance
    \/ InstanceOperation

-----------------------------------------------------------------------------
(* vk/error.rs: VulkanResult and fatal_vk_error *)

\* enum VulkanResult: each variant with its discriminant, its
\* strum(to_string) and its doc attribute.
VulkanResult ==
    {[variant |-> "NotReady", repr |-> 1, to_string |-> "NOT_READY",
      doc |-> "A fence or query has not yet completed"],
     [variant |-> "Timeout", repr |-> 2, to_string |-> "TIMEOUT",
      doc |-> "A wait operation has not completed in the specified time"],
     [variant |-> "EventSet", repr |-> 3, to_string |-> "EVENT_SET",
      doc |-> "An event is signaled"],
     [variant |-> "EventReset", repr |-> 4, to_string |-> "EVENT_RESET",
      doc |-> "An event is unsignaled"],
     [variant |-> "Incomplete", repr |-> 5, to_string |-> "INCOMPLETE",
      doc |-> "A return array was too small for the result"],
     [variant |-> "ErrorOutOfHostMemory", repr |-> -1,
      to_string |-> "ERROR_OUT_OF_HOST_MEMORY",
      doc |-> "A host memory allocation has failed"],
     [variant |-> "ErrorOutOfDeviceMemory", repr |-> -2,
      to_string |-> "ERROR_OUT_OF_DEVICE_MEMORY",
      doc |-> "A device memory allocation has failed"],
     [variant |-> "ErrorInitializationFailed", repr |-> -3,
      to_string |-> "ERROR_INITIALIZATION_FAILED",
      doc |-> "Initialization of an object has failed"],
     [variant |-> "ErrorDeviceLost", repr |-> -4, to_string |-> "ERROR_DEVICE_LOST",
      doc |-> "The logical device has been lost. See <https://registry.khronos.org/vulkan/specs/1.3-extensions/html/vkspec.html#devsandqueues-lost-device>"],
     [variant |-> "ErrorMemoryMapFailed", repr |-> -5,
      to_string |-> "ERROR_MEMORY_MAP_FAILED",
      doc |-> "Mapping of a memory object has failed"],
     [variant |-> "ErrorLayerNotPresent", repr |-> -6,
      to_string |-> "ERROR_LAYER_NOT_PRESENT",
      doc |-> "Layer specified does not exist"],
     [variant |-> "ErrorExtensionNotPresent", repr |-> -7,
      to_string |-> "ERROR_EXTENSION_NOT_PRESENT",
      doc |-> "Extension specified does not exist"],
     [variant |-> "ErrorFeatureNotPresent", repr |-> -8,
      to_string |-> "ERROR_FEATURE_NOT_PRESENT",
      doc |-> "Requested feature is not available on this device"],
     [variant |-> "ErrorIncompatibleDriver", repr |-> -9,
      to_string |-> "ERROR_INCOMPATIBLE_DRIVER",
      doc |-> "Unable to find a Vulkan driver"],
     [variant |-> "ErrorTooManyObjects", repr |-> -10,
      to_string |-> "ERROR_TOO_MANY_OBJECTS",
      doc |-> "Too many objects of the type have already been created"],
     [variant |-> "ErrorFormatNotSupported", repr |-> -11,
      to_string |-> "ERROR_FORMAT_NOT_SUPPORTED",
      doc |-> "Requested format is not supported on this device"],
     [variant |-> "ErrorFragmentedPool", repr |-> -12,
      to_string |-> "ERROR_FRAGMENTED_POOL",
      doc |-> "A requested pool allocation has failed due to fragmentation of the pool's memory"],
     [variant |-> "ErrorUnknown", repr |-> -13, to_string |-> "ERROR_UNKNOWN",
      doc |-> "An unknown error has occurred, due to an implementation or application bug"],
     [variant |-> "Success", repr |-> 0, to_string |-> "",
      doc |-> "Command completed successfully"]}

\* VulkanResult::doc
doc(self) ==
    CASE self = "Success" -> "Command completed successfully"
      [] self = "NotReady" -> "A fence or query has not yet completed"
      [] self = "Timeout" -> "A wait operation has not completed in the specified time"
      [] self = "EventSet" -> "An event is signaled"
      [] self = "EventReset" -> "An event is unsignaled"
      [] self = "Incomplete" -> "A return array was too small for the result"
      [] self = "ErrorOutOfHostMemory" -> "A host memory allocation has failed"
      [] self = "ErrorOutOfDeviceMemory" -> "A device memory allocation has failed"
      [] self = "ErrorInitializationFailed" -> "Initialization of an object has failed"
      [] self = "ErrorDeviceLost" ->
            "The logical device has been lost. See <https://registry.khronos.org/vulkan/specs/1.3-extensions/html/vkspec.html#devsandqueues-lost-device>"
      [] self = "ErrorMemoryMapFailed" -> "Mapping of a memory object has failed"
      [] self = "ErrorLayerNotPresent" -> "Layer specified does not exist"
      [] self = "ErrorExtensionNotPresent" -> "Extension specified does not exist"
      [] self = "ErrorFeatureNotPresent" ->
            "Requested feature is not available on this device"
      [] self = "ErrorIncompatibleDriver" -> "Unable to find a Vulkan driver"
      [] self = "ErrorTooManyObjects" ->
            "Too many objects of the type have already been created"
      [] self = "ErrorFormatNotSupported" ->
            "Requested format is not supported on this device"
      [] self = "ErrorFragmentedPool" ->
            "A requested pool allocation has failed due to fragmentation of the pool's memory"
      [] self = "ErrorUnknown" ->
            "An unknown error has occurred, due to an implementation or application bug"

\* strum::FromRepr: the variant with this discriminant, or None.
from_repr(raw) ==
    IF \E result \in VulkanResult : result.repr = raw
    THEN Some((CHOOSE result \in VulkanResult : result.repr = raw).variant)
    ELSE None

\* strum::Display: the to_string of the variant.
to_string(self) == (CHOOSE result \in VulkanResult : result.variant = self).to_string

\* The diagnostic of panic!("fatal: {}: {} ({})", msg, e, e.doc()).
Diagnostic(msg, e, meaning) == <<"fatal: ", msg, ": ", e, " (", meaning, ")">>

\* fatal_vk_error(msg, error) with error: vk::Result. error.into() is
\* from_repr(value.as_raw()).expect(..), which panics with its own message
\* for a code that is no discriminant of VulkanResult.
fatal_vk_error(msg, error) ==
    LET e == from_repr(error)
    IN IF e = None
       THEN [panic |-> "all VkResult cases are covered",
             message |-> <<"all VkResult cases are covered">>]
       ELSE [panic |-> "fatal",
             message |-> Diagnostic(msg, to_string(unwrap(e)), doc(unwrap(e)))]

\* The messages fatal_vk_error is called with.
Operations ==
    {"failed to create_fence", "failed to reset fence", "failed to get_fence_status",
     "failed to wait_for_fences", "failed t osubmit queue",
     "failed to create_image_view"}

\* The vk::Result a driver call can give as its Err: every code of the
\* enum but SUCCESS, which ash returns as Ok, and those of the surface and
\* swapchain extensions the device is created with, which queue_present
\* returns: VK_ERROR_SURFACE_LOST_KHR, VK_ERROR_OUT_OF_DATE_KHR.
DriverErrors ==
    ({result.repr : result \in VulkanResult} \ {0})
        \cup {-1000000000, -1000001004}

\* A driver call failed and its caller went to fatal_vk_error.
FatalVkError ==
    /\ panic = NoPanic
    /\ \E msg \in Operations, error \in DriverErrors :
         LET r == fatal_vk_error(msg, error)
         IN /\ err_call' = [op |-> "fatal_vk_error", msg |-> msg, error |-> error,
                            message |-> r.message]
            /\ panic' = r.panic
    /\ UNCHANGED not_err_vars

InitError ==
    err_call = [op |-> "none", msg |-> "none", error |-> 0, message |-> <<>>]

NextError == FatalVkError

-----------------------------------------------------------------------------
(* Specifications *)

vars == <<cb_vars, fence_vars, setup_vars, panic>>

Init ==
    /\ InitCommandBuffer
    /\ InitFence
    /\ InitSelection
    /\ InitSelector
    /\ InitExtensions
    /\ InitSwapchain
    /\ InitOwnership
    /\ InitManagers
    /\ InitError
    /\ panic = NoPanic

Next ==
    \/ NextCommandBuffer \/ NextFence \/ NextSelection \/ NextSelector
    \/ NextExtensions \/ NextSwapchain \/ NextOwnership \/ NextFramebuffers
    \/ NextManagers \/ NextError

Spec == Init /\ [][Next]_vars

\* The command buffer alone: the fence is left as constructed.
SpecCommandBuffer == Init /\ [][NextCommandBuffer]_vars

\* The fence alone: the command buffer is left as constructed.
SpecFence == Init /\ [][NextFence]_vars

\* Physical device selection alone.
SpecSelection == Init /\ [][NextSelection]_vars

\* The draw queue family selector alone.
SpecSelector == Init /\ [][NextSelector]_vars

\* The extension managers alone.
SpecExtensions == Init /\ [][NextExtensions]_vars

\* The swapchain alone.
SpecSwapchain == Init /\ [][NextSwapchain]_vars

\* The ownership of the objects alone.
SpecOwnership == Init /\ [][NextOwnership]_vars

\* fatal_vk_error alone.
SpecError == Init /\ [][NextError]_vars

\* The VulkanManager and an InstanceManager alone.
SpecManagers == Init /\ [][NextManagers]_vars

\* The making and the release of framebuffers and of what they are made of.
SpecFramebuffers == Init /\ [][NextFramebuffers]_vars

\* The fence with the scheduling the threads get: a spawned waiter thread is
\* an OS thread, so each of its steps is eventually taken (wait_for_fences
\* returns within FENCE_POLL_PERIOD), and a join() whose thread has ended
\* returns. Nothing obliges the owner to call the fence.
WaiterFairness ==
    \A t \in ThreadIds :
        /\ WF_vars(WaiterWaitForFences(t))
        /\ WF_vars(WaiterCheck(t))
        /\ WF_vars(WaiterWake(t))
        /\ WF_vars(WaiterReturn(t))

SpecFenceFair == Init /\ [][NextFence]_vars /\ WaiterFairness /\ WF_vars(PollJoined)

-----------------------------------------------------------------------------
(* Properties of the command buffer (SpecCommandBuffer) *)

\* The command buffer as it is, put in state s: what a method would do from
\* each value of CommandBufferState, the two no operation ever sets included.
InState(s) == [Self EXCEPT !.state = s]

Rejected(r, s) ==
    /\ r.ret = CommandBufferStateError(s)
    /\ r.self = InState(s)
    /\ r.driver = <<>>

\* C1: begin() succeeds if and only if the state is Initial or Executable and
\* then leaves the buffer Recording; from Recording, Pending and Invalid it
\* returns InvalidCommandBufferState carrying the current state. (A begin the
\* driver fails is a fatal panic, neither of the two returns.)
C1_BeginContract ==
    /\ cb_call.op = "begin" =>
         /\ cb_call.ret.tag = "Err" <=> cb_call.pre.state \notin {"Initial", "Executable"}
         /\ cb_call.ret.tag = "Err" => cb_call.ret.arg = cb_call.pre.state
         /\ cb_call.ret = Ok => state = "Recording"
    /\ \A s \in CommandBufferState :
         /\ s \in {"Initial", "Executable"} =>
              /\ begin(InState(s), TRUE).ret = Ok
              /\ begin(InState(s), TRUE).self.state = "Recording"
              /\ begin(InState(s), FALSE).ret.tag = "panic"
         /\ s \in {"Recording", "Pending", "Invalid"} =>
              \A driver_ok \in BOOLEAN : Rejected(begin(InState(s), driver_ok), s)

\* C1 witness: a finished buffer was begun again (re-recording).
C1_Witness ==
    /\ cb_call.op = "begin"
    /\ cb_call.pre.state = "Executable"
    /\ cb_call.ret = Ok
    /\ state = "Recording"

\* C2: end() succeeds if and only if the state is Recording and then leaves
\* the buffer Executable; from every other state it returns
\* InvalidCommandBufferState carrying the current state.
C2_EndContract ==
    /\ cb_call.op = "end" =>
         /\ cb_call.ret.tag = "Err" <=> cb_call.pre.state # "Recording"
         /\ cb_call.ret.tag = "Err" => cb_call.ret.arg = cb_call.pre.state
         /\ cb_call.ret = Ok => state = "Executable"
    /\ \A s \in CommandBufferState :
         /\ s = "Recording" =>
              /\ end(InState(s), TRUE).ret = Ok
              /\ end(InState(s), TRUE).self.state = "Executable"
              /\ end(InState(s), FALSE).ret.tag = "panic"
         /\ s # "Recording" =>
              \A driver_ok \in BOOLEAN : Rejected(end(InState(s), driver_ok), s)

\* C2 witness: a recording was ended.
C2_Witness ==
    /\ cb_call.op = "end"
    /\ cb_call.pre.state = "Recording"
    /\ cb_call.ret = Ok
    /\ state = "Executable"

RecordingOps ==
    {"cmd_begin_render_pass", "cmd_bind_graphics_pipeline", "cmd_set_viewport",
     "cmd_set_scissor", "cmd_draw", "cmd_end_render_pass"}

\* What each recording operation would do on command buffer self.
RecordingOutcomes(self) ==
    {cmd_begin_render_pass(self, rp, fb) : rp \in RenderPasses, fb \in Framebuffers}
    \cup {cmd_bind_graphics_pipeline(self, p) : p \in Pipelines}
    \cup {cmd_set_viewport(self), cmd_set_scissor(self), cmd_draw(self),
          cmd_end_render_pass(self)}

\* C3: each of the six recording operations succeeds if and only if the
\* buffer is Recording, and leaves it Recording; in Initial, Executable,
\* Pending and Invalid each is rejected with InvalidCommandBufferState
\* carrying the current state.
C3_RecordingOpsContract ==
    /\ cb_call.op \in RecordingOps =>
         /\ cb_call.ret = Ok <=> cb_call.pre.state = "Recording"
         /\ cb_call.ret # Ok => cb_call.ret = CommandBufferStateError(cb_call.pre.state)
         /\ cb_call.ret = Ok => state = "Recording"
    /\ \A s \in CommandBufferState : \A r \in RecordingOutcomes(InState(s)) :
         IF s = "Recording"
         THEN r.ret = Ok /\ r.self.state = "Recording" /\ Len(r.driver) = 1
         ELSE Rejected(r, s)

\* C3 witness: a draw was recorded, and the buffer is still Recording.
C3_Witness ==
    /\ cb_call.op = "cmd_draw"
    /\ cb_call.pre.state = "Recording"
    /\ cb_call.ret = Ok
    /\ state = "Recording"
    /\ recorded = cb_call.pre_recorded + 1

\* C4: a call that fails with InvalidCommandBufferState changes nothing: the
\* state, the driver handle and the markers are as before the call, and no
\* driver command was recorded.
C4_FailedCallChangesNothing ==
    /\ cb_call.ret.tag = "Err" =>
         /\ Self = cb_call.pre
         /\ recorded = cb_call.pre_recorded
         /\ referenced = cb_call.pre_referenced
    /\ \A s \in CommandBufferState :
         \A r \in RecordingOutcomes(InState(s))
                  \cup {begin(InState(s), ok) : ok \in BOOLEAN}
                  \cup {end(InState(s), ok) : ok \in BOOLEAN} :
            r.ret.tag = "Err" => r.self = InState(s) /\ r.driver = <<>>

\* C4 witness: cmd_draw on a fresh buffer failed with
\* InvalidCommandBufferState(Initial) and the buffer is still Initial.
C4_Witness ==
    /\ cb_call.op = "cmd_draw"
    /\ cb_call.pre = new
    /\ cb_call.ret = CommandBufferStateError("Initial")
    /\ state = "Initial"
    /\ recorded = 0

\* C5: once a cmd_begin_render_pass and a cmd_bind_pipeline have been
\* recorded, none of the resources they name (the render pass, the
\* framebuffer, the pipeline) is destroyed while the command buffer exists,
\* whatever the application drops.
C5_ReferencedResourcesOutliveBuffer ==
    (/\ TheCommandBuffer \notin destroyed
     /\ referenced \cap RenderPasses # {}
     /\ referenced \cap Framebuffers # {}
     /\ referenced \cap Pipelines # {})
    => referenced \cap destroyed = {}

-----------------------------------------------------------------------------
(* Properties of the fence (SpecFence) *)

Unjoined == {t \in SpawnedThreads : threads[t].joins = 0}

\* C6: a freshly created Fence is Ready with a signaled handle, and its
\* first poll returns Ready at once: no waiter is spawned and the fence does
\* not leave Ready (a get_fence_status the driver fails is a fatal panic).
C6_FreshFenceReady ==
    /\ f_call.op = "new" =>
         /\ fence = Ready(FenceHandle)
         /\ signaled
         /\ SpawnedThreads = {}
    /\ (f_call.op = "poll" /\ f_call.fresh) =>
         /\ f_call.pre = "Ready"
         /\ f_call.ret \in {"Ready", "panic"}
         /\ f_call.ret = "panic" => panic = "failed to get_fence_status"
         /\ fence = Ready(FenceHandle)
         /\ owner = Idle
         /\ SpawnedThreads = {}

\* C6 witness: the first call on the fence was a poll, and it returned Ready.
C6_Witness ==
    /\ f_call.op = "poll"
    /\ f_call.fresh
    /\ f_call.ret = "Ready"
    /\ fence = Ready(FenceHandle)

\* A poll that finds the fence Ready returns Pending exactly when the driver
\* reports it not signaled, and only such a poll returns Pending.
PendingWhileNotSignaled ==
    f_call.op = "poll" =>
        /\ f_call.ret = "Pending" => f_call.pre = "Ready" /\ ~f_call.status
        /\ (f_call.pre = "Ready" /\ f_call.ret = "Ready") => f_call.status

WokenOncePerCycle ==
    \A t \in ThreadIds :
        threads[t].wakes = IF threads[t].pc \in {"return", "done"} THEN 1 ELSE 0

JoinLeavesReadyWithOriginalHandle ==
    (f_call.op = "poll" /\ f_call.pre = "Waiting" /\ f_call.ret = "Ready") =>
        /\ fence = Ready(FenceHandle)
        /\ owner = Idle
        /\ Unjoined = {}

\* C7 as stated: a poll returns Ready only once the GPU work has completed
\* (the driver reports the fence signaled), a waiter wakes the task exactly
\* once, and the join leaves the Fence Ready with its original handle.
C7_RoundTripAsStated ==
    /\ PendingWhileNotSignaled
    /\ (f_call.op = "poll" /\ f_call.ret = "Ready") => signaled
    /\ WokenOncePerCycle
    /\ JoinLeavesReadyWithOriginalHandle

\* C7 amended: a poll returns Ready only once the GPU work has completed or,
\* in a debug build, the shutdown flag is set; a poll that returns Pending
\* found the fence Ready; a waiter wakes the task exactly once; and the join
\* leaves the Fence Ready with its original handle.
C7_RoundTrip ==
    /\ PendingWhileNotSignaled
    /\ (f_call.op = "poll" /\ f_call.ret = "Ready") => (signaled \/ check_shutdown)
    /\ WokenOncePerCycle
    /\ JoinLeavesReadyWithOriginalHandle

\* C7 witness: with no shutdown, a poll joined the waiter of a fence the GPU
\* has signaled: it returned Ready, the task was woken once and the Fence
\* holds its handle again.
C7_Witness ==
    /\ ~FENCE_SHUTDOWN
    /\ f_call.op = "poll" /\ f_call.pre = "Waiting" /\ f_call.ret = "Ready"
    /\ signaled
    /\ fence = Ready(FenceHandle)
    /\ \E t \in ThreadIds :
         threads[t].pc = "done" /\ threads[t].wakes = 1 /\ threads[t].joins = 1

\* C8: the polling thread never blocks: it is never inside join() while the
\* waiter thread it joins is still running.
C8_PollNeverBlocks ==
    owner.pc = "join" => threads[owner.s.handle].pc \in {"done", "panicked"}

C10_OneWaiterPerFence ==
    /\ Cardinality(Unjoined) <= 1
    /\ \A t \in ThreadIds : threads[t].joins <= 1
    /\ fence.tag = "Waiting" => Unjoined = {fence.handle}
    /\ owner.pc = "join" => Unjoined = {owner.s.handle}
    /\ (fence.tag = "Ready" /\ owner.pc = "idle") => Unjoined = {}
    /\ (f_call.op = "poll" /\ f_call.ret = "Pending") =>
         f_call.pre = "Ready" /\ fence.tag = "Waiting"

\* C10 witness: a second wait cycle runs after the first waiter was joined.
C10_Witness ==
    /\ \E t \in ThreadIds : threads[t].pc = "done" /\ threads[t].joins = 1
    /\ fence.tag = "Waiting"
    /\ threads[fence.handle].pc = "wait_for_fences"
    /\ threads[fence.handle].joins = 0

-----------------------------------------------------------------------------
(* Shutdown of a pending wait (SpecFenceFair) *)

InWaitLoop(t) == threads[t].pc \in {"wait_for_fences", "check_shutdown"}

\* C11: once the debug shutdown flag is set while the Fence is Waiting and
\* its waiter is in the bounded-timeout loop, the waiter eventually leaves
\* the loop, wakes the task once and returns; and a poll that joins such a
\* waiter eventually completes: it returns Ready without a panic, is
\* reported as polled after shutdown and the Fence holds its handle again.
\* Neither needs the GPU to signal the fence.
C11_ShutdownResolvesWait ==
    \A t \in ThreadIds :
        /\ (check_shutdown /\ fence = Waiting(t) /\ InWaitLoop(t))
              ~> (threads[t].pc = "done" /\ threads[t].wakes = 1)
        /\ (check_shutdown /\ owner.pc = "join" /\ owner.s = Waiting(t)
                /\ threads[t].pc # "panicked")
              ~> (/\ f_call.op = "poll" /\ f_call.pre = "Waiting"
                  /\ f_call.ret = "Ready" /\ f_call.reported
                  /\ panic = NoPanic
                  /\ owner = Idle
                  /\ fence = Ready(FenceHandle)
                  /\ threads[t].joins = 1)

\* C11 witness: the GPU never signaled the fence, the flag was set during
\* the wait, and the next poll returned Ready and was reported.
C11_Witness ==
    /\ check_shutdown
    /\ ~signaled
    /\ f_call.op = "poll" /\ f_call.pre = "Waiting" /\ f_call.ret = "Ready"
    /\ f_call.reported
    /\ panic = NoPanic
    /\ fence = Ready(FenceHandle)
    /\ \E t \in ThreadIds :
         threads[t].pc = "done" /\ threads[t].wakes = 1 /\ threads[t].joins = 1

-----------------------------------------------------------------------------
(* Submission (SpecFence) *)

\* The positions in a call's driver calls of the driver call name.
Positions(driver, name) == {i \in DOMAIN driver : driver[i].name = name}

ResetBeforeSubmit(driver) ==
    \A i \in Positions(driver, "reset_fences"), j \in Positions(driver, "queue_submit") :
        i < j

\* C12: a submission with a fence resets it before queue_submit is issued,
\* never after, and queue_submit is then given that fence; the fence must be
\* Ready: on a Waiting fence the call panics and the driver sees neither a
\* reset nor a submission; without a fence nothing is reset, the driver's
\* fence stays as it was and queue_submit is given the null handle.
C12_SubmitResetsFenceFirst ==
    /\ f_call.op = "submit" =>
         /\ ResetBeforeSubmit(f_call.driver)
         /\ f_call.pre = "Ready" =>
              /\ Len(f_call.driver) >= 1
              /\ f_call.driver[1] = VkCall("reset_fences", FenceHandle)
              /\ Positions(f_call.driver, "queue_submit") \subseteq {2}
              /\ f_call.ret = "Ok" =>
                   f_call.driver = <<VkCall("reset_fences", FenceHandle),
                                     VkCall("queue_submit", FenceHandle)>>
         /\ f_call.pre = "Waiting" =>
              /\ f_call.ret = "panic"
              /\ panic = "Fence cannot be reset while being waited for!"
              /\ f_call.driver = <<>>
         /\ f_call.pre = "none" =>
              /\ f_call.driver = <<VkCall("queue_submit", NullFence)>>
              /\ f_call.status => signaled
    /\ \A t \in ThreadIds, reset_ok \in BOOLEAN, submit_ok \in BOOLEAN :
         /\ submit_command_buffer(Waiting(t), reset_ok, submit_ok).ret = "panic"
         /\ submit_command_buffer(Waiting(t), reset_ok, submit_ok).driver = <<>>
         /\ Positions(submit_command_buffer(NoFence, reset_ok, submit_ok).driver,
                      "reset_fences") = {}

\* C12 witness: a submission with a Ready fence went through, the reset
\* first and the queue_submit second.
C12_Witness ==
    /\ f_call.op = "submit" /\ f_call.pre = "Ready" /\ f_call.ret = "Ok"
    /\ f_call.driver[1].name = "reset_fences"
    /\ f_call.driver[2].name = "queue_submit"
    /\ in_flight

-----------------------------------------------------------------------------
(* Physical device selection (SpecSelection) *)

GpuType(d) == d.device_type \in {"DISCRETE_GPU", "INTEGRATED_GPU"}

RequiredExtensionsAvailable(d) ==
    /\ d.extensions.ok
    /\ \A i \in DOMAIN REQUIRED_DEVICE_EXTENSIONS :
         REQUIRED_DEVICE_EXTENSIONS[i] \in d.extensions.names

RequiredFeaturesSet(d) == d.vulkan_memory_model /\ d.geometry_shader = VK_TRUE

SurfaceUsable(d) ==
    /\ d.surface_info.ok
    /\ \E i \in DOMAIN d.surface_info.formats : d.surface_info.formats[i] = B8G8R8A8_SRGB
    /\ \E i \in DOMAIN d.surface_info.present_modes : d.surface_info.present_modes[i] = "FIFO"

GraphicsFamilies(d) == {i \in DOMAIN d.queue_families : d.queue_families[i].graphics}

PresentFamilies(d) ==
    {i \in DOMAIN d.queue_families : d.queue_families[i].surface_support /\ SurfaceUsable(d)}

\* Some family of d does graphics and some family can present.
CompleteAfterInspection(d) == GraphicsFamilies(d) # {} /\ PresentFamilies(d) # {}

Suitable(d) ==
    /\ GpuType(d)
    /\ RequiredExtensionsAvailable(d)
    /\ RequiredFeaturesSet(d)
    /\ CompleteAfterInspection(d)

\* C13: whenever rate_physical_device returns, the rating is 0 or 1, and it
\* is 1 exactly for a discrete or integrated GPU that has every required
\* extension and every required feature flag and on which the chooser is
\* complete after every queue family was inspected; such a device also
\* passes FeaturesInfo::check_required. (The rating panics instead of
\* returning only when the surface query of a device past the first three
\* checks fails.)
C13_RatingIsZeroOrOne ==
    rate_call.op = "rate" =>
        /\ rate_call.panic = NoPanic =>
             /\ rate_call.rating \in {0, 1}
             /\ rate_call.rating = 1 <=> Suitable(rate_call.device)
             /\ rate_call.rating = 1 => check_required(rate_call.device) = "Ok(())"
        /\ rate_call.panic # NoPanic =>
             /\ GpuType(rate_call.device)
             /\ RequiredExtensionsAvailable(rate_call.device)
             /\ RequiredFeaturesSet(rate_call.device)
             /\ ~rate_call.device.surface_info.ok

\* C13 witness: a discrete GPU with every extension, both features and two
\* queue families, one for graphics and one for presentation, rated 1.
C13_Witness ==
    /\ rate_call.op = "rate"
    /\ rate_call.rating = 1
    /\ rate_call.device.device_type = "DISCRETE_GPU"
    /\ rate_call.device.queue_families =
          <<[graphics |-> TRUE, surface_support |-> FALSE],
            [graphics |-> FALSE, surface_support |-> TRUE]>>

Chosen == pd_pc = "done" /\ pd_ret.tag = "Ok"

Enumerated == pd_pc = "done" /\ pd_ret.msg # "enumerate_physical_devices"

\* C14: a choice that enumerated the devices fails with "No physical device
\* found." exactly when the list is empty, fails with "No suitable physical
\* device found." exactly when the list is not empty and no device rates
\* above 0, and otherwise succeeds with a device that was rated 1.
C14_SelectionOutcome ==
    Enumerated =>
        /\ Len(pd_rated) = pd_count
        /\ pd_ret.msg = "No physical device found." <=> pd_count = 0
        /\ pd_ret.msg = "No suitable physical device found." <=>
              (pd_count > 0 /\ \A i \in DOMAIN pd_rated : pd_rated[i] <= 0)
        /\ pd_ret.tag = "Ok" <=> \E i \in DOMAIN pd_rated : pd_rated[i] > 0
        /\ pd_ret.tag = "Ok" =>
              /\ pd_ret.device \in DOMAIN pd_rated
              /\ pd_rated[pd_ret.device] = 1
              /\ Suitable(unwrap(pd_best).info)

\* C14 witness: of two devices one was unsuitable, and the choice succeeded.
C14_Witness ==
    /\ Chosen
    /\ pd_count = 2
    /\ \E i \in DOMAIN pd_rated : pd_rated[i] = 0

\* The devices that share the maximum rating.
MaxRated == {i \in DOMAIN pd_rated : \A j \in DOMAIN pd_rated : pd_rated[j] <= pd_rated[i]}

\* C15 as stated: among the devices that share the maximum rating the
\* choice is the first in enumeration order.
C15_FirstMaxWins ==
    Chosen => pd_ret.device = First(MaxRated)

\* C15 amended: among the devices that share the maximum rating the choice
\* is the last in enumeration order.
C15_LastMaxWins ==
    Chosen => /\ pd_ret.device \in MaxRated
              /\ \A i \in MaxRated : i <= pd_ret.device

\* C15 witness: two devices rated 1, and the second was chosen.
C15_Witness ==
    /\ Chosen
    /\ pd_rated = <<1, 1>>
    /\ pd_ret.device = 2

\* C16: on success the chooser returned with the device is complete, its
\* graphics family is a family of the chosen device that does graphics and
\* its present family is a family of the chosen device that can present.
C16_ChooserOfChosenDevice ==
    Chosen =>
        LET chosen == unwrap(pd_best)
            qfi == pd_ret.queue_family_indices
        IN /\ pd_ret.device = chosen.pdev
           /\ QueueFamilyIndices_is_complete(qfi)
           /\ unwrap(qfi.graphics) + 1 \in GraphicsFamilies(chosen.info)
           /\ unwrap(qfi.present) + 1 \in PresentFamilies(chosen.info)

\* C16 witness: the chosen device is the second of two, it has two families
\* and the first of them neither does graphics nor presents.
C16_Witness ==
    /\ Chosen
    /\ pd_ret.device = 2
    /\ pd_rated = <<1, 1>>
    /\ Len(unwrap(pd_best).info.queue_families) = 2
    /\ pd_ret.queue_family_indices = [graphics |-> Some(1), present |-> Some(1)]
    /\ ~unwrap(pd_best).info.queue_families[1].graphics
    /\ ~unwrap(pd_best).info.queue_families[1].surface_support

-----------------------------------------------------------------------------
(* Draw queue family selector: requirements and fill_queues *)

\* The device of scenario A: one family doing graphics and presentation, and
\* a surface with a usable swapchain configuration.
SingleFamilyDevice ==
    /\ dq_device.queue_families = <<[graphics |-> TRUE, surface_support |-> TRUE]>>
    /\ dq_device.surface_info = UsableSurface
    /\ dq_next = 1

\* C17: requirements() of a completed chooser with graphics family g and
\* present family p is exactly <<(g, [0.0])>> when g = p and exactly
\* <<(g, [0.0]), (p, [0.0])>> when g # p; for the device with the single
\* family 0 doing graphics and presentation on a usable surface it is
\* <<(0, [0.0])>>.
C17_RequirementsOfCompleteChooser ==
    (dq_call.op = "requirements" /\ is_complete(dq_call.pre)) =>
        LET g == unwrap(dq_call.pre.graphics)
            p == unwrap(dq_call.pre.present)
        IN /\ dq_call.panic = NoPanic
           /\ g = p => dq_call.reqs = <<<<g, <<0>>>>>>
           /\ g # p => dq_call.reqs = <<<<g, <<0>>>>, <<p, <<0>>>>>>
           /\ SingleFamilyDevice => dq_call.reqs = <<<<0, <<0>>>>>>

C17_Witness ==
    /\ dq_call.op = "requirements"
    /\ is_complete(dq_call.pre)
    /\ unwrap(dq_call.pre.graphics) # unwrap(dq_call.pre.present)
    /\ Len(dq_call.reqs) = 2

\* Scenario A reaches its single-family requirement list.
ScenarioA_Reached ==
    /\ dq_call.op = "requirements"
    /\ SingleFamilyDevice
    /\ dq_call.reqs = <<<<0, <<0>>>>>>

\* C18: when fill_selector hands a completed chooser the raw queues made
\* from the chooser's own requirements, fill_queues returns a graphics queue
\* taken from the raw entry of the graphics family and a present queue taken
\* from the raw entry of the present family.
C18_FillQueuesProvenance ==
    (dq_call.op = "fill_selector" /\ is_complete(dq_call.pre)
        /\ dq_call.panic # "queue selector returned invalid requirements!") =>
        LET g == unwrap(dq_call.pre.graphics)
            p == unwrap(dq_call.pre.present)
            raw == dq_call.queues_raw
        IN /\ dq_call.panic = NoPanic
           /\ Len(raw) = Len(dq_call.reqs)
           /\ \A i \in DOMAIN raw : raw[i][1] = dq_call.reqs[i][1]
           /\ \E i \in DOMAIN raw :
                raw[i][1] = g /\ dq_call.queues.graphics \in Range(raw[i][2])
           /\ \E i \in DOMAIN raw :
                raw[i][1] = p /\ dq_call.queues.present \in Range(raw[i][2])
           /\ dq_call.queues.graphics.family = g
           /\ dq_call.queues.present.family = p

C18_Witness ==
    /\ dq_call.op = "fill_selector"
    /\ is_complete(dq_call.pre)
    /\ dq_call.panic = NoPanic
    /\ dq_call.queues.graphics.family # dq_call.queues.present.family

\* C19: requirements() and fill_queues() called on a chooser whose
\* is_complete() is false panic; they return no value.
C19_IncompleteChooserPanics ==
    ~is_complete(dq_call.pre) =>
        /\ dq_call.op \in {"requirements", "fill_selector"} =>
             /\ dq_call.panic = "asked for requirements of an unscompleted chooser!"
             /\ panic = dq_call.panic
             /\ dq_call.reqs = <<>>
             /\ dq_call.queues = NoDrawQueues
        /\ dq_call.op = "fill_queues" =>
             /\ dq_call.panic = "filled queues of an unscompleted chooser!"
             /\ panic = dq_call.panic
             /\ dq_call.queues = NoDrawQueues

C19_Witness ==
    /\ dq_call.op = "requirements"
    /\ is_some(dq_call.pre.graphics)
    /\ ~is_some(dq_call.pre.present)
    /\ panic = "asked for requirements of an unscompleted chooser!"

\* fill_queues reaches its own panic on an incomplete chooser.
FillQueuesOfIncompleteChooser ==
    /\ dq_call.op = "fill_queues"
    /\ ~is_complete(dq_call.pre)
    /\ panic = "filled queues of an unscompleted chooser!"

-----------------------------------------------------------------------------
(* Extension managers: add_extensions *)

\* The last call was add_extensions of either manager.
Added == ext_call.op = "add_extensions"

Succeeded == ext_call.ret = ExtOk /\ ext_call.panic = NoPanic

Failed == ext_call.ret.tag = "Err"

\* C20: add_extensions(required) succeeds if and only if every name of
\* required is one of the manager's available names, and when it fails the
\* name it reports is in required and not available.
C20_AddSucceedsIffAvailable ==
    Added =>
        /\ Succeeded <=> Range(ext_call.required) \subseteq ext_call.pre.available
        /\ Failed => ext_call.ret.extension
                        \in Range(ext_call.required) \ ext_call.pre.available

\* C20 witness: a device manager refused a list whose first name is
\* available and whose second is not.
C20_Witness ==
    /\ Added /\ Failed
    /\ ext_call.kind = "device"
    /\ Len(ext_call.required) = 2
    /\ ext_call.required[1] \in ext_call.pre.available
    /\ ext_call.ret.extension = ext_call.required[2]

\* Both managers accept and refuse lists.
InstanceAddRefused == Added /\ Failed /\ ext_call.kind = "instance"
InstanceAddAccepted ==
    Added /\ Succeeded /\ ext_call.kind = "instance" /\ ext_call.required # <<>>
DeviceAddAccepted ==
    Added /\ Succeeded /\ ext_call.kind = "device" /\ ext_call.required # <<>>
InstanceAddPanicked == Added /\ ext_call.kind = "instance" /\ panic # NoPanic

\* The names of the last call's list that the manager did not hold available.
Missing == {i \in DOMAIN ext_call.required :
              ext_call.required[i] \notin ext_call.pre.available}

\* C21: when add (or a check) of a manager fails, the name it reports is the
\* first name of the required list, in the order of the list, that is not
\* available.
C21_FirstMissingReported ==
    (ext_call.op \in {"add_extensions", "check_extensions", "add_layers"} /\ Failed) =>
        /\ Missing # {}
        /\ ext_call.ret.extension = ext_call.required[First(Missing)]

\* C21 witness: both names of the list were missing and differ; the first
\* was reported.
C21_Witness ==
    /\ Added /\ Failed
    /\ ext_call.kind = "instance"
    /\ Missing = {1, 2}
    /\ ext_call.required[1] # ext_call.required[2]
    /\ ext_call.ret.extension = ext_call.required[1]

\* What a step may do to a manager: it stays, its enabled names stay
\* enabled, its available names stay as they are.
Grows(pre, post) ==
    /\ pre.enabled \subseteq post.enabled
    /\ pre.available = post.available

\* C22: over any sequence of calls on one manager the enabled set only
\* grows, after successful and after failed calls, and the available names
\* never change.
C22_EnabledGrowsMonotonically ==
    [][/\ is_some(dem) =>
            /\ is_some(dem')
            /\ Grows(DeviceView(unwrap(dem)), DeviceView(unwrap(dem')))
       /\ is_some(em) =>
            /\ is_some(em')
            /\ Grows(InstanceView(unwrap(em)), InstanceView(unwrap(em')))
            /\ Len(unwrap(em').available) = Len(unwrap(em).available)
       /\ is_some(vlm) =>
            /\ is_some(vlm')
            /\ Grows(InstanceView(unwrap(vlm)), InstanceView(unwrap(vlm')))]_vars

\* C22 witness: a failed add on a manager that had a name enabled by an
\* earlier add, and that name is still enabled.
C22_Witness ==
    /\ Added /\ Failed
    /\ ext_call.pre.enabled # {}
    /\ ext_call.pre.enabled \subseteq ext_call.post.enabled

\* A later successful add kept what was enabled and added to it.
SecondAddGrew ==
    /\ Added /\ Succeeded
    /\ ext_call.pre.enabled # {}
    /\ ext_call.pre.enabled # ext_call.post.enabled

\* No element occurs twice in seq.
NoRepeats(seq) == \A i, j \in DOMAIN seq : seq[i] = seq[j] => i = j

\* C23: enumerate() yields each reported name once, so the list of enabled
\* names holds each enabled name exactly once, also when the driver reports
\* a name more than once.
C23_EnabledNamesListedOnce ==
    /\ is_some(em) =>
         NoRepeats([j \in DOMAIN unwrap(em).available |-> unwrap(em).available[j].name])
    /\ ext_call.op = "list" =>
         /\ NoRepeats(ext_names)
         /\ Range(ext_names) = ext_call.pre.enabled

\* The instance manager listed an enabled name twice.
EnabledNameListedTwice ==
    /\ ext_call.op = "list" /\ ext_call.kind = "instance"
    /\ ~NoRepeats(ext_names)

\* The device manager keeps sets: its list never repeats a name.
DeviceNamesListedOnce ==
    (ext_call.op = "list" /\ ext_call.kind = "device") =>
        /\ NoRepeats(ext_names)
        /\ Range(ext_names) = ext_call.pre.enabled

AddedLayers == ext_call.op = "add_layers"

ReleaseAcceptedLayers ==
    AddedLayers /\ ~debug_assertions /\ Succeeded /\ ext_call.required # <<>>

-----------------------------------------------------------------------------
(* Swapchain: what is chosen, creation, teardown *)

\* The entry choose_format looks for.
Matches(format) ==
    format.format = "B8G8R8A8_SRGB" /\ format.color_space = "SRGB_NONLINEAR"

\* C25: choose_format returns the first entry of the format list that is
\* B8G8R8A8_SRGB in the SRGB_NONLINEAR color space, wherever it stands (the
\* second of [R8G8B8A8_UNORM, B8G8R8A8_SRGB/SRGB_NONLINEAR]), and no format
\* when no entry matches.
C25_FirstMatchingFormat ==
    sw_call.op = "choose_format" =>
        LET formats == sw_call.formats
            ret == sw_call.format
        IN /\ ~is_some(ret) <=> \A i \in DOMAIN formats : ~Matches(formats[i])
           /\ is_some(ret) =>
                \E i \in DOMAIN formats :
                    /\ formats[i] = unwrap(ret)
                    /\ Matches(formats[i])
                    /\ \A j \in 1..(i - 1) : ~Matches(formats[j])
           /\ formats = <<R8G8B8A8_UNORM, B8G8R8A8_SRGB>> => ret = Some(formats[2])

\* C25 witness: scenario B.
C25_Witness ==
    /\ sw_call.op = "choose_format"
    /\ sw_call.formats = <<R8G8B8A8_UNORM, B8G8R8A8_SRGB>>
    /\ sw_call.format = Some(B8G8R8A8_SRGB)

\* A list without a matching entry gives no format.
NoFormatChosen ==
    sw_call.op = "choose_format" /\ sw_call.formats # <<>> /\ sw_call.format = None

\* C26: choose_image_count returns min_image_count + 1, or max_image_count
\* when that is not 0 and lower; so it never exceeds a max_image_count that
\* is not 0 (min 2, max 0 gives 3; min 2, max 2 gives 2).
C26_ImageCountClamped ==
    sw_call.op = "choose_image_count" =>
        LET min == sw_call.capabilities.min_image_count
            max == sw_call.capabilities.max_image_count
            ret == sw_call.image_count
        IN /\ (max # 0 /\ max < min + 1) => ret = max
           /\ ~(max # 0 /\ max < min + 1) => ret = min + 1
           /\ max # 0 => ret <= max
           /\ (min = 2 /\ max = 0) => ret = 3
           /\ (min = 2 /\ max = 2) => ret = 2

\* C26 witness: scenario C with the cap in force.
C26_Witness ==
    /\ sw_call.op = "choose_image_count"
    /\ sw_call.capabilities.min_image_count = 2
    /\ sw_call.capabilities.max_image_count = 2
    /\ sw_call.image_count = 2

\* Scenario C without a cap.
UncappedImageCount ==
    /\ sw_call.op = "choose_image_count"
    /\ sw_call.capabilities.min_image_count = 2
    /\ sw_call.capabilities.max_image_count = 0
    /\ sw_call.image_count = 3

\* The driver calls of one kind made on one chain, as positions of sw_driver.
Calls(call, chain) ==
    {i \in DOMAIN sw_driver : sw_driver[i].call = call /\ sw_driver[i].chain = chain}

\* C27: every Swapchain that was created and whose teardown has not begun
\* owns as many image views as the driver returned images for the chain,
\* one view per image.
C27_OneViewPerImage ==
    \A chain \in DOMAIN sw_chains :
        sw_chains[chain].status = "alive" =>
            LET swapchain == sw_chains[chain].swapchain
            IN /\ Len(swapchain.views) = Len(swapchain.images)
               /\ \A i \in DOMAIN swapchain.images : swapchain.views[i] = swapchain.images[i]
               /\ Cardinality(Calls("create_image_view", chain)) = Len(swapchain.images)

\* C27 witness: a chain of several images is alive.
C27_Witness ==
    \E chain \in DOMAIN sw_chains :
        /\ sw_chains[chain].status = "alive"
        /\ Len(sw_chains[chain].swapchain.images) >= 2
        /\ Len(sw_chains[chain].swapchain.views) >= 2

\* C28: no image view of a chain is destroyed after the handle of that chain
\* has been destroyed.
C28_ViewsDestroyedBeforeChain ==
    \A chain \in DOMAIN sw_chains :
        \A i \in Calls("destroy_swapchain", chain), j \in Calls("destroy_image_view", chain) :
            j < i

\* A chain with views was torn down.
ChainWithViewsDropped ==
    \E chain \in DOMAIN sw_chains :
        /\ sw_chains[chain].status = "dropped"
        /\ Calls("destroy_image_view", chain) # {}

RecreationFailed ==
    sw_call.op = "recreate" /\ sw_call.ret = "Err" /\ sw_current = Some(sw_call.old)

-----------------------------------------------------------------------------
(* Ownership: a child never outlives its parent *)

\* What is created from a LogicalDevice, and from the Context.
DeviceChildren ==
    {"Swapchain", "RenderPass", "Framebuffer", "PipelineLayout", "GraphicsPipeline",
     "CommandPool", "CommandBuffer", "Fence", "Semaphore", "Queue"}

InstanceChildren == {"Device", "Surface"}

\* parent is destroyed after its children: once it is destroyed they all
\* are, and in the order of the last release none of them comes after it.
DestroyedAfter(parent, children) ==
    /\ parent \in own_destroyed => children \subseteq own_destroyed
    /\ \A i, j \in DOMAIN own_last :
         (own_last[i] = parent /\ own_last[j] \in children) => j < i

\* C30: in whatever order the application drops its references, the Device
\* is destroyed only after every Swapchain, RenderPass, Framebuffer,
\* PipelineLayout, GraphicsPipeline, CommandPool, CommandBuffer, Fence,
\* Semaphore and Queue created from it, and the Instance only after the
\* Device and the Surface.
C30_ChildNeverOutlivesParent ==
    /\ DestroyedAfter("Device", DeviceChildren)
    /\ DestroyedAfter("Instance", InstanceChildren)
    /\ \A object \in own_held : object \notin own_destroyed

\* C30 witness: the last reference the application dropped was to a Queue,
\* the only thing still keeping the Device; Device, Surface and Instance
\* went with it, in that order.
C30_Witness ==
    /\ own_held = {}
    /\ own_last = <<"Queue", "Device", "Surface", "Instance">>
    /\ own_destroyed = Kinds \ Unbuilt

\* The swapchain over whose views a framebuffer was made.
BuiltFrom(framebuffer) ==
    IF framebuffer = "Framebuffer2" THEN unwrap(own_built) ELSE "Swapchain"

\* The framebuffers that exist.
LiveFramebuffers ==
    {framebuffer \in {"Framebuffer", "Framebuffer2"} \ Unbuilt :
        framebuffer \notin own_destroyed}

\* C31: while a framebuffer exists, neither the render pass it was built
\* with nor the swapchain it was built from (whose Drop destroys the image
\* views the framebuffer attaches) is destroyed.
C31_FramebufferKeepsRenderPassAndSwapchain ==
    \A framebuffer \in LiveFramebuffers :
        /\ "RenderPass" \notin own_destroyed
        /\ BuiltFrom(framebuffer) \notin own_destroyed

\* The part of C31 that the fields of Framebuffer and RenderPass give: the
\* render pass of a framebuffer, and the swapchain that render pass was
\* built from, are kept.
FramebufferKeepsRenderPass ==
    LiveFramebuffers # {} =>
        "RenderPass" \notin own_destroyed /\ "Swapchain" \notin own_destroyed

\* A framebuffer made by Swapchain2 with the render pass of Swapchain is
\* still there after Swapchain2 and its views were destroyed.
FramebufferOutlivesItsSwapchain ==
    /\ own_built = Some("Swapchain2")
    /\ "Framebuffer2" \in own_held
    /\ "Swapchain2" \in own_destroyed
    /\ own_last = <<"Swapchain2">>

-----------------------------------------------------------------------------
(* Ownership: a command buffer and its pool *)

\* What holds an Arc<CommandPool> besides the application.
PoolOwners == {"CommandBuffer", "GraphicsPipeline"}

\* C32: the pool is not destroyed while the command buffer allocated from
\* it exists; the pool's reference to itself does not keep it, so once the
\* application and every owner have dropped theirs it is destroyed; and it
\* is destroyed once: no release destroys what was destroyed before, or
\* destroys an object twice.
C32_CommandBufferKeepsPool ==
    /\ []("CommandBuffer" \notin own_destroyed => "CommandPool" \notin own_destroyed)
    /\ [](\A i, j \in DOMAIN own_last :
            (own_last[i] = "CommandPool" /\ own_last[j] = "CommandBuffer") => j < i)
    /\ []( ("CommandPool" \notin own_held /\ PoolOwners \subseteq own_destroyed)
             => "CommandPool" \in own_destroyed )
    /\ [][ "CommandPool" \in Range(own_last') =>
             /\ "CommandPool" \notin own_destroyed
             /\ Cardinality({i \in DOMAIN own_last' : own_last'[i] = "CommandPool"}) = 1
         ]_own_last

\* C32 witness: the application had dropped the pipeline and its own
\* reference to the pool; dropping the command buffer then destroyed the
\* pool, after the buffer.
C32_Witness ==
    /\ own_last = <<"CommandBuffer", "CommandPool">>
    /\ "GraphicsPipeline" \in own_destroyed
    /\ "Device" \notin own_destroyed

-----------------------------------------------------------------------------
(* VulkanManager: the order of the stages *)

\* The calls on the VulkanManager.
ManagerOperations == {"init_entry", "init_window_manager", "init_instance", "init_surface"}

\* The call returned a recoverable error and left the manager as it was.
Refused(ret) ==
    /\ vm_call.ret = ret
    /\ vm_call.post = vm_call.pre
    /\ vm_call.panic = NoPanic

\* C33: a stage asked for before its prerequisite returns an Err that names
\* the missing stage and changes nothing: init_instance names Entry without
\* an entry point and WindowManager without a window manager, init_surface
\* names InstanceManager without an instance manager, and a method of
\* InstanceManager that needs the instance names Instance without one.
C33_MissingStageNamed ==
    /\ (vm_call.op = "init_instance" /\ vm_call.pre.entry = None)
         => Refused(VulkanInitOrderError("InstanceManager", "Entry"))
    /\ (/\ vm_call.op = "init_instance"
        /\ vm_call.pre.entry # None
        /\ vm_call.pre.window_manager = None)
         => Refused(VulkanInitOrderError("InstanceManager", "WindowManager"))
    /\ (vm_call.op = "init_surface" /\ vm_call.pre.instance_manager = None)
         => Refused(VulkanInitOrderError("Surface", "InstanceManager"))
    /\ (vm_call.op \in InstanceOperations /\ vm_call.pre.instance = None)
         => Refused(VulkanInitStageError("Instance"))

\* C33 witness: init_instance with an entry point and no window manager.
C33_Witness ==
    /\ vm_call.op = "init_instance"
    /\ vm_call.pre.entry # None
    /\ vm_call.pre.window_manager = None
    /\ vm_call.ret.requiered_stage = "WindowManager"
    /\ vm = vm_call.pre

\* The other three cases of C33 happen too.
InstanceBeforeEntry ==
    /\ vm_call.op = "init_instance"
    /\ vm_call.pre.entry = None
    /\ vm_call.ret.requiered_stage = "Entry"

SurfaceBeforeInstance ==
    /\ vm_call.op = "init_surface"
    /\ vm_call.pre.instance_manager = None
    /\ vm_call.ret.requiered_stage = "InstanceManager"

OperationBeforeInstance ==
    /\ vm_call.op \in InstanceOperations
    /\ vm_call.pre.instance = None
    /\ vm_call.ret.requiered_stage = "Instance"

\* The stage is initialised in the VulkanManager self.
Initialised(stage, self) ==
    CASE stage = "Entry" -> is_some(self.entry)
      [] stage = "WindowManager" -> is_some(self.window_manager)
      [] stage = "InstanceManager" -> is_some(self.instance_manager)
      [] stage = "Surface" ->
            /\ is_some(self.window_manager)
            /\ is_some(unwrap(self.window_manager).surface)

\* No call on the VulkanManager un-initialises one of the stages.
Kept(stages) ==
    vm_call.op \in ManagerOperations =>
        \A stage \in stages :
            Initialised(stage, vm_call.pre) => Initialised(stage, vm_call.post)

\* The instance manager is there only with the entry point and the window
\* manager, and the expect of init_surface never failed.
InstanceManagerAfterItsStages ==
    /\ Initialised("InstanceManager", vm) =>
         Initialised("Entry", vm) /\ Initialised("WindowManager", vm)
    /\ vm_call.panic # "window_manager is always initialized at this point"

\* C40 as stated: the instance manager is initialised only if the entry
\* point and the window manager are, no stage of VulkanInitStage is ever
\* un-initialised, and the expect of init_surface never fails.
C40_NoStageUninitialised ==
    /\ InstanceManagerAfterItsStages
    /\ Kept(VulkanInitStage)

\* C40: the instance manager is initialised only if the entry point and the
\* window manager are, none of these three is ever un-initialised, and the
\* expect of init_surface never fails. (The surface is un-initialised by a
\* second init_window_manager, which stores a WindowManager without one.)
C40_ManagerStagesKept ==
    /\ InstanceManagerAfterItsStages
    /\ Kept({"Entry", "WindowManager", "InstanceManager"})

\* C40 witness: init_surface passed the instance check, found the window
\* manager and made the surface.
C40_Witness ==
    /\ vm_call.op = "init_surface"
    /\ vm_call.ret = ManagerOk
    /\ Initialised("Surface", vm)
    /\ Initialised("InstanceManager", vm_call.pre)

\* init_window_manager after init_surface: the surface is gone.
SurfaceUninitialised ==
    /\ vm_call.op = "init_window_manager"
    /\ Initialised("Surface", vm_call.pre)
    /\ ~Initialised("Surface", vm)

-----------------------------------------------------------------------------
(* fatal_vk_error *)

\* The doc attribute of the variant whose discriminant is the raw code.
Documented(raw) == CHOOSE result \in VulkanResult : result.repr = raw

\* C34: fatal_vk_error never returns, and for every code of the driver its
\* diagnostic has the name of the operation, the code as the VulkanResult
\* variant with that discriminant, and the documented meaning of the code.
C34_FatalDiagnostic ==
    err_call.op = "fatal_vk_error" =>
        /\ panic # NoPanic
        /\ \E result \in VulkanResult :
             /\ result.repr = err_call.error
             /\ err_call.message = Diagnostic(err_call.msg, result.to_string, result.doc)

\* The part of C34 that holds: fatal_vk_error never returns, and for a code
\* that is a discriminant of VulkanResult the diagnostic is as claimed.
FatalNeverReturns ==
    err_call.op = "fatal_vk_error" =>
        /\ panic # NoPanic
        /\ from_repr(err_call.error) # None =>
             err_call.message =
                 Diagnostic(err_call.msg, Documented(err_call.error).to_string,
                            Documented(err_call.error).doc)

\* queue_present returned VK_ERROR_OUT_OF_DATE_KHR: the panic is the one of
\* expect, without the operation and the meaning of the code.
FatalWithoutDiagnostic ==
    /\ err_call.op = "fatal_vk_error"
    /\ err_call.msg = "failed t osubmit queue"
    /\ err_call.error = -1000001004
    /\ panic = "all VkResult cases are covered"

-----------------------------------------------------------------------------
(* The chooser inspecting the families of a device *)

\* inspect_queue_family has just looked at the family with this id.
Inspected == dq_call.op = "inspect_queue_family"
InspectedId == dq_next - 1
InspectedFamily == dq_device.queue_families[dq_next]

\* The surface answered, and offers the format and the present mode.
SurfaceOffers(surface_info) ==
    /\ surface_info.ok
    /\ \E i \in DOMAIN surface_info.formats :
         /\ surface_info.formats[i].format = "B8G8R8A8_SRGB"
         /\ surface_info.formats[i].color_space = "SRGB_NONLINEAR"
    /\ \E i \in DOMAIN surface_info.present_modes :
         surface_info.present_modes[i] = "FIFO"

\* C35: the inspected family becomes the graphics candidate exactly when
\* its flags include graphics, and the present candidate exactly when the
\* surface supports the family and offers a B8G8R8A8_SRGB/SRGB_NONLINEAR
\* format and the FIFO present mode.
C35_CandidatesOfInspectedFamily ==
    Inspected =>
        /\ dq_selector.graphics = Some(InspectedId) <=> InspectedFamily.graphics
        /\ dq_selector.present = Some(InspectedId)
             <=> (InspectedFamily.surface_support /\ SurfaceOffers(dq_device.surface_info))

\* C35 witness: a family the surface supports, on a surface without the
\* present mode, was inspected and did not become the present candidate.
C35_Witness ==
    /\ Inspected
    /\ InspectedFamily.surface_support
    /\ dq_device.surface_info.ok
    /\ dq_device.surface_info.present_modes = <<>>
    /\ dq_selector.present # Some(InspectedId)

\* A family became both candidates.
InspectedFamilyChosen ==
    /\ Inspected
    /\ dq_selector.graphics = Some(InspectedId)
    /\ dq_selector.present = Some(InspectedId)

\* The ids below n of the families of the device that pass a filter.
PassingGraphics(n) ==
    {id \in 0..(n - 1) : dq_device.queue_families[id + 1].graphics}

PassingPresent(n) ==
    {id \in 0..(n - 1) :
        /\ dq_device.queue_families[id + 1].surface_support
        /\ SurfaceOffers(dq_device.surface_info)}

\* The greatest id of a set of family ids, or None.
Highest(ids) ==
    IF ids = {} THEN None ELSE Some(CHOOSE id \in ids : \A other \in ids : other <= id)

\* C39: after the families 0..n-1 were inspected in order, the graphics and
\* the present family are the highest-index families passing their
\* filters; an inspection never clears a candidate, so is_complete never
\* goes back to false.
C39_HighestFamilyKept ==
    /\ dq_call.op # "new" =>
         /\ dq_selector.graphics = Highest(PassingGraphics(dq_next))
         /\ dq_selector.present = Highest(PassingPresent(dq_next))
    /\ Inspected =>
         /\ is_some(dq_call.pre.graphics) => is_some(dq_selector.graphics)
         /\ is_some(dq_call.pre.present) => is_some(dq_selector.present)
         /\ is_complete(dq_call.pre) => is_complete(dq_selector)

\* C39 witness: both families pass both filters; after the second
\* inspection the second family has overwritten the first.
C39_Witness ==
    /\ Inspected
    /\ dq_next = 2
    /\ PassingGraphics(2) = {0, 1}
    /\ PassingPresent(2) = {0, 1}
    /\ dq_call.pre = [graphics |-> Some(0), present |-> Some(0)]
    /\ dq_selector = [graphics |-> Some(1), present |-> Some(1)]

-----------------------------------------------------------------------------
(* The states a command buffer is ever in *)

\* C36: over any sequence of begin, cmd_*, end and submissions the state
\* is Initial, Recording or Executable, never Pending or Invalid, and a
\* submission leaves the state as it was.
C36_NeverPendingOrInvalid ==
    /\ state \in {"Initial", "Recording", "Executable"}
    /\ cb_call.pre.state \in {"Initial", "Recording", "Executable"}
    /\ cb_call.op = "submit_command_buffer" => state = cb_call.pre.state

\* C36 witness: a recorded and finished buffer was submitted and is still
\* Executable.
C36_Witness ==
    /\ cb_call.op = "submit_command_buffer"
    /\ cb_call.ret = Ok
    /\ cb_call.pre.state = "Executable"
    /\ cb_call.pre_recorded > 0
    /\ state = "Executable"

\* A buffer that was never recorded is accepted by a submission too.
InitialBufferSubmitted ==
    /\ cb_call.op = "submit_command_buffer"
    /\ cb_call.ret = Ok
    /\ state = "Initial"

-----------------------------------------------------------------------------
(* What makes a poll Ready and a waiter terminate *)

\* The waiter threads that have left their loop normally.
LeftLoop == {t \in ThreadIds : threads[t].pc \in {"wake", "return", "done"}}

\* C37: a poll returns Ready only if the driver reported the fence signaled
\* (get_fence_status for a Ready fence, wait_for_fences SUCCESS in the waiter
\* it joined) or the debug shutdown flag was seen set; a waiter whose bounded
\* wait merely timed out neither leaves its loop nor wakes the task.
C37_ReadyOnlySignaledOrShutdown ==
    /\ (f_call.op = "poll" /\ f_call.pre = "Ready" /\ f_call.ret = "Ready") =>
           f_call.status
    /\ (f_call.op = "poll" /\ f_call.pre = "Waiting" /\ f_call.ret = "Ready") =>
           \A t \in ThreadIds :
               threads[t].joins > 0 =>
                   /\ t \in LeftLoop
                   /\ threads[t].code = "SUCCESS" \/ check_shutdown
    /\ \A t \in LeftLoop : threads[t].code = "SUCCESS" \/ check_shutdown
    /\ \A t \in ThreadIds :
           (threads[t].code = "TIMEOUT" /\ ~check_shutdown) => threads[t].wakes = 0
    /\ \A code \in {"SUCCESS", "TIMEOUT", "ERROR_DEVICE_LOST"} :
           after_wait(code, FALSE) = "wake" <=> code = "SUCCESS"

\* C37 witness: with no shutdown, the waiter a Pending poll spawned saw its
\* bounded wait time out and is waiting again, the task not woken.
C37_Witness ==
    /\ ~check_shutdown
    /\ f_call.op = "poll" /\ f_call.ret = "Pending"
    /\ fence.tag = "Waiting"
    /\ threads[fence.handle].pc = "wait_for_fences"
    /\ threads[fence.handle].code = "TIMEOUT"
    /\ threads[fence.handle].wakes = 0

\* A waiter that left its loop on a TIMEOUT: the shutdown flag was set.
LeftLoopOnTimeout ==
    \E t \in LeftLoop : threads[t].code = "TIMEOUT" /\ check_shutdown

-----------------------------------------------------------------------------
(* A refused list enables nothing *)

\* The manager the last call was made on, as it is now.
ManagerNow ==
    IF ext_call.kind = "device" THEN DeviceView(unwrap(dem))
    ELSE IF ext_call.kind = "instance" THEN InstanceView(unwrap(em))
    ELSE InstanceView(unwrap(vlm))

\* C38: an add that fails (or panics building its error) leaves the manager
\* as it was: available and enabled are those of before the call, so no
\* name of the refused list became enabled, the available names that
\* precede the missing one included; a check_extensions never changes the
\* manager.
C38_FailedAddChangesNothing ==
    /\ (ext_call.op \in {"add_extensions", "add_layers"} /\ ~Succeeded) =>
           /\ ManagerNow = ext_call.pre
           /\ ext_call.post = ext_call.pre
           /\ Range(ext_call.required) \cap ManagerNow.enabled
                 = Range(ext_call.required) \cap ext_call.pre.enabled
    /\ ext_call.op = "check_extensions" =>
           /\ ManagerNow = ext_call.pre
           /\ ext_call.post = ext_call.pre

\* C38 witness: an instance add was refused for its second name; its first
\* name is available, was not enabled before and is not enabled now.
C38_Witness ==
    /\ InstanceAddRefused
    /\ Len(ext_call.required) = 2
    /\ ext_call.required[1] \in ext_call.pre.available \ ext_call.pre.enabled
    /\ ext_call.ret.extension = ext_call.required[2]
    /\ ext_call.required[1] \notin InstanceView(unwrap(em)).enabled

\* A check of a list with a missing name, made on a manager with names
\* enabled: they stay enabled.
CheckRefusedWithEnabled ==
    /\ ext_call.op = "check_extensions"
    /\ Failed
    /\ ext_call.pre.enabled # {}
    /\ ManagerNow.enabled = ext_call.pre.enabled

\* A layers add was refused in a debug build.
LayersAddRefused ==
    /\ ext_call.op = "add_layers"
    /\ Failed
    /\ Range(ext_call.required) \cap ext_call.pre.available # {}

=============================================================================
